---- MODULE Spec2Model ----
(***************************************************************************)
(* Model of the lazy tree-table adapter of PoDoFoBrowser:                  *)
(* PdfObjectModelTree, PdfObjectModelNode and PdfObjectModel.              *)
(*                                                                         *)
(* The eager variant of trunk/src/pdfobjectmodel.cpp, whose constructors   *)
(* build the whole tree, is modelled by the Trunk definitions and TrunkSpec.*)
(*                                                                         *)
(* A PdfObject pointer is modelled by the object's place in the document:  *)
(* <<n>> is indirect object n, <<n, c1, ..., ck>> the object reached from  *)
(* it through dictionary keys / 0-based array positions c1..ck.  A pointer *)
(* whose first component is 0 points into storage that has been released.  *)
(* A node pointer is the node's path of child positions from the root.     *)
(***************************************************************************)
EXTENDS Integers, Sequences, FiniteSets, TLC

\* ------------------------------------------------------------------ bounds
\* deepest tree level at which the view still asks a node for its rows
MaxDepth == 3
\* number of calls that change the document in one run
MaxEdits == 2

\* ------------------------------------------------------- PoDoFo values
KeyNull == 0
KeyA == 1
KeyB == 2
KeyC == 3

Null == [t |-> "null", v |-> 0]
NameV(n) == [t |-> "name", v |-> n]
RefV(n) == [t |-> "ref", v |-> n]
ArrV(s) == [t |-> "array", v |-> s]
DictV(f) == [t |-> "dict", v |-> f]

IsArray(val) == val.t = "array"
IsDictionary(val) == val.t = "dict"
IsReference(val) == val.t = "ref"

\* the keys of a TKeyMap (a std::map) in its iteration order
RECURSIVE SortedSeq(_)
SortedSeq(S) ==
    IF S = {} THEN <<>>
    ELSE LET m == CHOOSE x \in S : \A y \in S : x <= y
         IN <<m>> \o SortedSeq(S \ {m})

GetKeys(val) == SortedSeq(DOMAIN val.v)

Component(val, c) == IF IsArray(val) THEN val.v[c + 1] ELSE val.v[c]

RECURSIVE SubValue(_, _)
SubValue(val, path) ==
    IF path = <<>> THEN val
    ELSE SubValue(Component(val, Head(path)), Tail(path))

RECURSIVE SubAssign(_, _, _)
SubAssign(val, path, new) ==
    IF path = <<>> THEN new
    ELSE LET c == Head(path)
             i == IF IsArray(val) THEN c + 1 ELSE c
         IN [val EXCEPT !.v[i] = SubAssign(@, Tail(path), new)]

\* --------------------------------------------------------------- state
VARIABLES
    objs,            \* the document: object number -> value (PdfVecObjects)
    nodes,           \* node pointer -> PdfObjectModelNode fields
    m_nodeAliases,   \* PdfObjectModelTree::m_nodeAliases: object pointer -> nodes, in insertion order
    freed,           \* node -> the bytes left in the released object it still points to
    m_bDocChanged,   \* PdfObjectModel::m_bDocChanged
    err,             \* "none", or the way the program died
    op,              \* the last adapter call and its arguments
    ret,             \* what the last adapter call returned
    log,             \* the notifications and node calls of the last adapter call, in order
    pre,             \* the model tree, document and changed flag when the last adapter call began
    mid,             \* the same after PrepareForSubtreeChange and after the mutation
    edits,           \* number of calls so far that changed the document
    frames           \* trunk variant: the node constructors in progress, innermost first

vars == <<objs, nodes, m_nodeAliases, freed, m_bDocChanged, err, op, ret, log, pre, mid, edits,
          frames>>

NoNode == <<-1>>
RootNode == <<>>
FollowReferences == TRUE
CatalogNum == 1

\* what a use of released storage can do in one run of a handler
UBOutcomes == {"crash", "intact"}

\* ------------------------------------------------- the working state
\* A handler is computed on a record s of the fields it reads and writes.
Cur(ub) ==
    [objs |-> objs, nodes |-> nodes, alias |-> m_nodeAliases, freed |-> freed,
     log |-> <<>>, err |-> "none", ub |-> ub, used |-> FALSE]

Snap(s) == [objs |-> s.objs, nodes |-> s.nodes, alias |-> s.alias, freed |-> s.freed]

Ok(s) == s.err = "none"
Fail(s, e) == IF Ok(s) THEN [s EXCEPT !.err = e] ELSE s
Emit(s, e, n, a, b) ==
    IF Ok(s) THEN [s EXCEPT !.log = Append(@, [e |-> e, n |-> n, a |-> a, b |-> b])] ELSE s

IsWild(s, n) == n \in DOMAIN s.freed

\* A use of released storage: the run either dies here or goes on with the
\* bytes the storage still holds.
UseReleased(s) ==
    IF ~Ok(s) THEN s
    ELSE IF s.ub = "crash" THEN [s EXCEPT !.err = "use_after_free", !.used = TRUE]
    ELSE [s EXCEPT !.used = TRUE]

\* s after a member of node n was read or written
TouchNode(s, n) == IF s.nodes[n].live THEN s ELSE UseReleased(s)
\* s after *m_pObject of node n was read or written
TouchObject(s, n) == IF IsWild(s, n) THEN UseReleased(s) ELSE s

GetObject(s, n) == s.nodes[n].m_pObject

\* the value *m_pObject of node n
ObjectValue(s, n) ==
    IF IsWild(s, n) THEN s.freed[n]
    ELSE LET a == GetObject(s, n) IN SubValue(s.objs[Head(a)], Tail(a))

\* PdfVecObjects::GetObject, <<>> when there is no such object
Resolve(s, num) == IF num \in DOMAIN s.objs THEN <<num>> ELSE <<>>

\* ------------------------------------------------- PdfObjectModelTree
CountAliases(s, obj) == IF obj \in DOMAIN s.alias THEN Len(s.alias[obj]) ELSE 0
GetAliases(s, obj) == IF obj \in DOMAIN s.alias THEN s.alias[obj] ELSE <<>>

\* NodeCreated that registers nothing
NodeCreatedForgets(s, n) == s

NodeCreated(s, n) ==
    LET obj == GetObject(s, n)
    IN [s EXCEPT !.alias = IF obj \in DOMAIN @
                           THEN [@ EXCEPT ![obj] = Append(@, n)]
                           ELSE (obj :> <<n>>) @@ @]

\* s.alias[obj] without its first entry for node n
RECURSIVE EraseFirst(_, _)
EraseFirst(seq, n) ==
    IF seq = <<>> THEN <<>>
    ELSE IF Head(seq) = n THEN Tail(seq)
    ELSE <<Head(seq)>> \o EraseFirst(Tail(seq), n)

\* NodeDeleted that leaves the entry in the index
NodeDeletedKeeps(s, n) == s

NodeDeleted(s, n) ==
    LET obj == GetObject(s, n)
        found == \E i \in 1..CountAliases(s, obj) : s.alias[obj][i] = n
        rest == EraseFirst(s.alias[obj], n)
    IN IF ~Ok(s) THEN s
       ELSE IF ~found THEN Fail(s, "logic_error:alias")
       ELSE [s EXCEPT !.alias = IF rest = <<>>
                                THEN [k \in (DOMAIN @) \ {obj} |-> @[k]]
                                ELSE [@ EXCEPT ![obj] = rest]]

\* ------------------------------------------------- PdfObjectModelNode
\* s with error e raised when bad holds
FailIf(s, bad, e) == IF Ok(s) /\ bad THEN [s EXCEPT !.err = e] ELSE s

\* a constructor that registers the node before it checks its arguments
NewNodeRegistersFirst(s, n, object, parent, parentKey, parentType) ==
    LET rec == [m_bPretendEmpty |-> FALSE,
                m_bChildrenLoaded |-> FALSE,
                m_pObject |-> object,
                m_pParent |-> parent,
                m_parentKey |-> parentKey,
                m_parentType |-> parentType,
                m_children |-> <<>>,
                live |-> TRUE]
    IN IF ~Ok(s) THEN s
       ELSE FailIf(NodeCreated([s EXCEPT !.nodes = (n :> rec) @@ @], n),
                   parentType # "PT_Root" /\ parent = NoNode, "invalid_argument")

NewNode(s, n, object, parent, parentKey, parentType) ==
    LET rec == [m_bPretendEmpty |-> FALSE,
                m_bChildrenLoaded |-> FALSE,
                m_pObject |-> object,
                m_pParent |-> parent,
                m_parentKey |-> parentKey,
                m_parentType |-> parentType,
                m_children |-> <<>>,
                live |-> TRUE]
    IN IF ~Ok(s) THEN s
       ELSE IF parentType # "PT_Root" /\ parent = NoNode THEN Fail(s, "invalid_argument")
       ELSE NodeCreated([s EXCEPT !.nodes = (n :> rec) @@ @], n)

\* a child of a node whose object is released points into the same released block
InheritReleased(s, p, n) ==
    IF Ok(s) /\ Head(GetObject(s, n)) = 0
    THEN [s EXCEPT !.freed = (n :> Component(s.freed[p], GetObject(s, n)[Len(GetObject(s, n))])) @@ @]
    ELSE s

\* push_back that drops the node
PushBackLost(s, p, n) == s

\* m_children.push_back(n)
PushBack(s, p, n) ==
    IF Ok(s) THEN [s EXCEPT !.nodes[p].m_children = Append(@, n)] ELSE s

\* AddNode that passes no key on to the child
AddNodeUnkeyed(s, p, object, pt, parentKey) ==
    PushBack(InheritReleased(NewNode(s, Append(p, Len(s.nodes[p].m_children)),
                                     object, p, KeyNull, pt),
                             p, Append(p, Len(s.nodes[p].m_children))),
             p, Append(p, Len(s.nodes[p].m_children)))

AddNode(s, p, object, pt, parentKey) ==
    PushBack(InheritReleased(NewNode(s, Append(p, Len(s.nodes[p].m_children)),
                                     object, p, parentKey, pt),
                             p, Append(p, Len(s.nodes[p].m_children))),
             p, Append(p, Len(s.nodes[p].m_children)))

RECURSIVE AddKeyNodes(_, _, _)
AddKeyNodes(s, p, keys) ==
    IF keys = <<>> \/ ~Ok(s) THEN s
    ELSE AddKeyNodes(AddNode(s, p, Append(GetObject(s, p), Head(keys)), "PT_Contained", Head(keys)),
                     p, Tail(keys))

RECURSIVE AddElementNodes(_, _, _, _)
AddElementNodes(s, p, i, size) ==
    IF i >= size \/ ~Ok(s) THEN s
    ELSE AddElementNodes(AddNode(s, p, Append(GetObject(s, p), i), "PT_Contained", KeyNull),
                         p, i + 1, size)

\* PopulateChildren that wraps the reference itself instead of resolving it
AddChildrenForUnresolved(s, n, val) ==
    IF ~Ok(s) THEN s
    ELSE IF FollowReferences /\ IsReference(val)
    THEN AddNode(s, n, GetObject(s, n), "PT_Referenced", KeyNull)
    ELSE IF IsDictionary(val) THEN AddKeyNodes(s, n, GetKeys(val))
    ELSE IF IsArray(val) THEN AddElementNodes(s, n, 0, Len(val.v))
    ELSE s

\* the branches of PopulateChildren on the value val of the node's object
AddChildrenFor(s, n, val) ==
    IF ~Ok(s) THEN s
    ELSE IF FollowReferences /\ IsReference(val) THEN
        IF Resolve(s, val.v) # <<>>
        THEN AddNode(s, n, Resolve(s, val.v), "PT_Referenced", KeyNull)
        ELSE s
    ELSE IF IsDictionary(val) THEN AddKeyNodes(s, n, GetKeys(val))
    ELSE IF IsArray(val) THEN AddElementNodes(s, n, 0, Len(val.v))
    ELSE s

SetChildrenLoaded(s, n, loaded) ==
    IF Ok(s) THEN [s EXCEPT !.nodes[n].m_bChildrenLoaded = loaded] ELSE s

PopulateChildren(s, n) ==
    SetChildrenLoaded(AddChildrenFor(TouchObject(s, n), n, ObjectValue(s, n)), n, TRUE)

\* EnsureChildrenLoaded that populates on every call
EnsureChildrenLoadedAlways(s, n) == IF ~Ok(s) THEN s ELSE PopulateChildren(s, n)

EnsureChildrenLoaded(s, n) ==
    IF ~Ok(s) \/ s.nodes[n].m_bChildrenLoaded THEN s ELSE PopulateChildren(s, n)

IsPretendEmpty(s, n) == s.nodes[n].m_bPretendEmpty

\* CountChildren that loads the children whatever the flag says
CountChildrenSLoads(s, n) == IF ~Ok(s) THEN s ELSE EnsureChildrenLoaded(s, n)

\* CountChildren: the state it leaves, and the number it returns
CountChildrenS(s, n) ==
    IF ~Ok(s) \/ IsPretendEmpty(s, n) THEN s ELSE EnsureChildrenLoaded(s, n)
CountChildren(s, n) ==
    IF IsPretendEmpty(s, n) THEN 0 ELSE Len(CountChildrenS(s, n).nodes[n].m_children)

\* SIZE_MAX, for which the largest integer of the checker stands
SizeMax == 2147483647
\* the conversion of an int to size_t that `n < m_children.size()` makes
AsSizeT(n) == IF n < 0 THEN SizeMax + n + 1 ELSE n

\* the n'th entry of m_children, NoNode when there is none
ChildAt(kids, i) == IF AsSizeT(i) < Len(kids) THEN kids[i + 1] ELSE NoNode
\* GetChild that reads the child list without loading it
GetChildUnloaded(s, p, i) ==
    IF IsPretendEmpty(s, p) THEN NoNode ELSE ChildAt(s.nodes[p].m_children, i)

\* GetChild: the node it returns (the state it leaves is that of CountChildren)
GetChild(s, p, i) ==
    IF IsPretendEmpty(s, p) THEN NoNode
    ELSE ChildAt(CountChildrenS(s, p).nodes[p].m_children, i)

SetPretendEmpty(s, n, empty) ==
    IF Ok(s) THEN [s EXCEPT !.nodes[n].m_bPretendEmpty = empty] ELSE s

RECURSIVE InvalidateChildren(_, _)
RECURSIVE DeleteNode(_, _)
RECURSIVE DeleteNodes(_, _)

\* a clear() that leaves the node marked as populated
ClearChildrenStillLoaded(s, n) ==
    IF Ok(s) THEN [s EXCEPT !.nodes[n].m_children = <<>>] ELSE s

\* m_children.clear(); m_bChildrenLoaded = false
ClearChildren(s, n) ==
    IF Ok(s) THEN [s EXCEPT !.nodes[n].m_children = <<>>,
                            !.nodes[n].m_bChildrenLoaded = FALSE]
    ELSE s

\* InvalidateChildren deletes every child and forgets the list
InvalidateChildren(s, n) == ClearChildren(DeleteNodes(s, s.nodes[n].m_children), n)

DeleteNodes(s, kids) ==
    IF kids = <<>> \/ ~Ok(s) THEN s
    ELSE DeleteNodes(DeleteNode(s, Head(kids)), Tail(kids))

\* the storage of node n is released; its record keeps the bytes the
\* destructor left until the handler returns
ReleaseNode(s, n) ==
    IF Ok(s) THEN [s EXCEPT !.nodes[n].live = FALSE,
                            !.freed = [k \in (DOMAIN @) \ {n} |-> @[k]]]
    ELSE s

\* a destructor that leaves the children alone
DeleteNodeShallow(s, n) == ReleaseNode(NodeDeleted(s, n), n)

\* delete node: the destructor, then the storage is released
DeleteNode(s, n) == ReleaseNode(NodeDeleted(InvalidateChildren(s, n), n), n)

\* ~PdfObjectModelTree: delete m_pRoot; assert(m_nodeAliases.size() == 0)
DestroyTree(s) ==
    FailIf(DeleteNode(s, RootNode), DOMAIN DeleteNode(s, RootNode).alias # {}, "assert")

\* the adapter is gone after its destructor returned: no call follows
Exited(s) == IF Ok(s) THEN [s EXCEPT !.err = "exit"] ELSE s

\* position of node n in seq, 0-based; -1 when absent
RECURSIVE Position(_, _, _)
Position(seq, n, i) ==
    IF i > Len(seq) THEN -1
    ELSE IF seq[i] = n THEN i - 1
    ELSE Position(seq, n, i + 1)

\* GetIndexInParent: the state it leaves (it may throw), and the number it returns
GetIndexInParentS(s, n) ==
    IF ~Ok(s) THEN s
    ELSE IF s.nodes[n].m_pParent = NoNode THEN FailIf(s, n # RootNode, "assert")
    ELSE FailIf(s, Position(s.nodes[s.nodes[n].m_pParent].m_children, n, 1) < 0,
                "logic_error:parent")
GetIndexInParent(s, n) ==
    IF s.nodes[n].m_pParent = NoNode THEN 0
    ELSE Position(s.nodes[s.nodes[n].m_pParent].m_children, n, 1)

\* the records of released nodes are forgotten when a handler returns
Collect(s) ==
    [s EXCEPT !.nodes = [n \in {m \in DOMAIN @ : @[m].live} |-> @[n]]]

\* ------------------------------------------------------- documents
\* /Root 1 0 R; object 2 is reached through two references
DocAlias == (1 :> DictV((KeyA :> RefV(2)) @@ (KeyB :> RefV(2)))) @@ (2 :> Null)
\* the catalog refers to itself, and to an object that does not exist
DocCycle == (1 :> DictV((KeyA :> RefV(1)) @@ (KeyB :> RefV(9))))
Docs == {DocAlias, DocCycle}

\* a constructor that builds the root's children at once
SetupModelDataEager(doc) ==
    CountChildrenS(NewNode([objs |-> doc, nodes |-> <<>>, alias |-> <<>>, freed |-> <<>>,
                            log |-> <<>>, err |-> "none", ub |-> "crash", used |-> FALSE],
                           RootNode, <<CatalogNum>>, NoNode, KeyNull, "PT_Root"),
                   RootNode)

\* PdfObjectModel::setupModelData followed by the tree's constructor
SetupModelData(doc) ==
    LET s0 == [objs |-> doc, nodes |-> <<>>, alias |-> <<>>, freed |-> <<>>,
               log |-> <<>>, err |-> "none", ub |-> "crash", used |-> FALSE]
    IN IF CatalogNum \in DOMAIN doc /\ IsDictionary(doc[CatalogNum])
       THEN NewNode(s0, RootNode, <<CatalogNum>>, NoNode, KeyNull, "PT_Root")
       ELSE Fail(s0, "invalid_argument")

\* QModelIndex(), and createIndex(row, column, ptr)
NoIndex == [valid |-> FALSE, row |-> -1, column |-> -1, ptr |-> NoNode]
CreateIndex(row, column, ptr) == [valid |-> TRUE, row |-> row, column |-> column, ptr |-> ptr]

NoOp == [name |-> "none", node |-> NoNode, valid |-> TRUE, column |-> 0,
         bytes |-> "", key |-> KeyNull, row |-> 0, res |-> NoIndex, role |-> ""]

NoSnap == [objs |-> <<>>, nodes |-> <<>>, alias |-> <<>>, freed |-> <<>>]
NoEntry == [objs |-> <<>>, nodes |-> <<>>, alias |-> <<>>, freed |-> <<>>, changed |-> FALSE]
\* what a handler finds when it is called
Entry == [objs |-> objs, nodes |-> nodes, alias |-> m_nodeAliases, freed |-> freed,
          changed |-> m_bDocChanged]

Init ==
    \E doc \in Docs :
        LET s == SetupModelData(doc)
        IN /\ objs = s.objs
           /\ nodes = s.nodes
           /\ m_nodeAliases = s.alias
           /\ freed = s.freed
           /\ m_bDocChanged = FALSE
           /\ err = s.err
           /\ op = NoOp
           /\ ret = FALSE
           /\ log = <<>>
           /\ pre = NoEntry
           /\ mid = <<NoSnap, NoSnap>>
           /\ edits = 0
           /\ frames = <<>>

\* the adapter is between two calls, the last call's record dropped
Running == err = "none" /\ op = NoOp

\* the nodes a valid QModelIndex can designate
Indexable == DOMAIN nodes

\* the handler called as o ran from the current state to s (through prep, then
\* mut), returned r and left the changed flag as given
Returns(o, r, prep, mut, s, changed) ==
    /\ objs' = s.objs
    /\ nodes' = Collect(s).nodes
    /\ m_nodeAliases' = s.alias
    /\ freed' = s.freed
    /\ m_bDocChanged' = changed
    /\ err' = s.err
    /\ op' = o
    /\ ret' = (Ok(s) /\ r)
    /\ log' = s.log
    /\ pre' = Entry
    /\ mid' = <<Snap(Collect(prep)), Snap(Collect(mut))>>
    /\ edits' = IF s.objs # objs \/ s.freed # freed THEN edits + 1 ELSE edits
    /\ edits' <= MaxEdits
    /\ frames' = frames

\* ----------------------------------------------------- PdfTokenizer
ParseError == [t |-> "error", v |-> 0]
NoValue == "QVariant()"
Bytes == {"", "/N", "[/N /M]", "<<>>", ")"}

\* PdfTokenizer::GetNextVariant on the bytes: the variant, or ParseError when it throws
GetNextVariant(bytes) ==
    CASE bytes = "null" -> Null
      [] bytes = "/N" -> NameV(1)
      [] bytes = "[/N /M]" -> ArrV(<<NameV(1), NameV(2)>>)
      [] bytes = "<</A null>>" -> DictV(KeyA :> Null)
      [] bytes = "<<>>" -> DictV(<<>>)
      [] bytes = "2 0 R" -> RefV(2)
      [] OTHER -> ParseError

\* ------------------------------------------- released object storage
IsPrefix(a, b) == Len(a) <= Len(b) /\ SubSeq(b, 1, Len(a)) = a

LiveNodes(s) == {m \in DOMAIN s.nodes : s.nodes[m].live}

\* The objects at the pointers in doomed are destroyed.  Every live node that
\* points at one of them keeps its pointer, now into released storage that
\* holds the object's last bytes.
Release(s, doomed) ==
    LET hit == {m \in LiveNodes(s) : s.nodes[m].m_pObject \in doomed}
        gone == {s.nodes[m].m_pObject : m \in hit}
        kept == (DOMAIN s.alias) \ gone
        keys == kept \cup {<<0>> \o a : a \in gone}
    IN [s EXCEPT
          !.nodes = [m \in DOMAIN @ |->
                        IF m \in hit THEN [@[m] EXCEPT !.m_pObject = <<0>> \o @] ELSE @[m]],
          !.freed = [m \in (DOMAIN @) \cup hit |->
                        IF m \in hit
                        THEN SubValue(s.objs[Head(s.nodes[m].m_pObject)], Tail(s.nodes[m].m_pObject))
                        ELSE @[m]],
          !.alias = [k \in keys |->
                        (IF k \in kept THEN @[k] ELSE <<>>)
                        \o (IF Head(k) = 0 /\ Tail(k) \in gone THEN @[Tail(k)] ELSE <<>>)]]

\* the pointers live nodes hold to objects strictly inside the object at a
PointersInside(s, a) ==
    {b \in {s.nodes[m].m_pObject : m \in LiveNodes(s)} : Head(b) # 0 /\ IsPrefix(a, b) /\ b # a}

\* *(m_pObject) = variant
AssignObject(s, n, variant) ==
    IF ~Ok(TouchObject(s, n)) THEN TouchObject(s, n)
    ELSE IF IsWild(s, n)
    THEN [TouchObject(s, n) EXCEPT
            !.freed = [m \in DOMAIN @ |->
                          IF s.nodes[m].m_pObject = GetObject(s, n) THEN variant ELSE @[m]]]
    ELSE [Release(s, PointersInside(s, GetObject(s, n))) EXCEPT
            !.objs[Head(GetObject(s, n))] = SubAssign(@, Tail(GetObject(s, n)), variant)]

\* SetRawData: TRUE when GetNextVariant throws PdfError
SetRawDataThrows(bytes) == GetNextVariant(bytes) = ParseError
\* SetRawData that clears the child list before it parses
SetRawDataClearsFirst(s, n, bytes) ==
    IF ~Ok(s) THEN s
    ELSE IF SetRawDataThrows(bytes)
    THEN Emit(InvalidateChildren(TouchNode(Emit(s, "SetRawData", n, 0, 0), n), n),
              "InvalidateChildren", n, 0, 0)
    ELSE Emit(AssignObject(Emit(InvalidateChildren(TouchNode(Emit(s, "SetRawData", n, 0, 0), n),
                                                   n),
                                "InvalidateChildren", n, 0, 0),
                           n, GetNextVariant(bytes)),
              "assign", n, 0, 0)

\* SetRawData that overwrites the object and keeps the child list
SetRawDataKeepsChildren(s, n, bytes) ==
    IF ~Ok(s) \/ SetRawDataThrows(bytes) THEN Emit(s, "SetRawData", n, 0, 0)
    ELSE Emit(AssignObject(TouchNode(Emit(s, "SetRawData", n, 0, 0), n),
                           n, GetNextVariant(bytes)),
              "assign", n, 0, 0)

\* SetRawData: the state it leaves
SetRawDataS(s, n, bytes) ==
    IF ~Ok(s) \/ SetRawDataThrows(bytes) THEN Emit(s, "SetRawData", n, 0, 0)
    ELSE Emit(AssignObject(Emit(InvalidateChildren(TouchNode(Emit(s, "SetRawData", n, 0, 0), n),
                                                   n),
                                "InvalidateChildren", n, 0, 0),
                           n, GetNextVariant(bytes)),
              "assign", n, 0, 0)
\* SetRawData: the value it returns when it does not throw
SetRawData(s, n, bytes) == TRUE

CanInsertKey(s, n, keyName) ==
    /\ keyName # KeyNull
    /\ IsDictionary(ObjectValue(s, n))
    /\ keyName \notin DOMAIN ObjectValue(s, n).v

\* InsertKey that replaces the dictionary by the one new entry
InsertKeyReplaces(s, n, keyName) ==
    IF ~Ok(s) THEN s
    ELSE IF ~CanInsertKey(s, n, keyName) THEN Fail(s, "assert")
    ELSE Emit([s EXCEPT !.objs[Head(GetObject(s, n))] =
                    SubAssign(@, Tail(GetObject(s, n)), DictV(keyName :> Null))],
              "AddKey", n, keyName, 0)

\* PdfDictionary::AddKey(keyName, null) on the node's object
InsertKeyS(s, n, keyName) ==
    IF ~Ok(s) THEN s
    ELSE IF ~CanInsertKey(s, n, keyName) THEN Fail(s, "assert")
    ELSE Emit([s EXCEPT !.objs[Head(GetObject(s, n))] =
                    SubAssign(@, Tail(GetObject(s, n)),
                              DictV((keyName :> Null) @@ ObjectValue(s, n).v))],
              "AddKey", n, keyName, 0)

\* CanInsertElement: the state it leaves, and the value it returns
CanInsertElementS(s, n, row) == IF row > 0 THEN CountChildrenS(s, n) ELSE s
CanInsertElement(s, n, row) ==
    /\ row > 0
    /\ row <= CountChildren(s, n)
    /\ IsArray(ObjectValue(s, n))

\* InsertElement that appends the null at the end of the array
InsertElementAppends(s, n, row, realloc) ==
    IF ~Ok(s) THEN s
    ELSE IF ~CanInsertElement(s, n, row) THEN Fail(s, "assert")
    ELSE Emit([s EXCEPT !.objs[Head(GetObject(s, n))] =
                    SubAssign(@, Tail(GetObject(s, n)),
                              ArrV(Append(ObjectValue(s, n).v, Null)))],
              "insert", n, row, 0)

\* std::vector::insert of a null before position row.  The elements from row on
\* are assigned over (what they contain is destroyed and copied anew); when the
\* vector grows into new storage every element is.
InsertElementS(s, n, row, realloc) ==
    LET a == GetObject(s, n)
        old == ObjectValue(s, n)
        new == ArrV(SubSeq(old.v, 1, row) \o <<Null>> \o SubSeq(old.v, row + 1, Len(old.v)))
        doomed == {b \in PointersInside(s, a) :
                      realloc \/ (b[Len(a) + 1] >= row /\ Len(b) > Len(a) + 1)}
    IN IF ~Ok(s) THEN s
       ELSE IF ~CanInsertElement(s, n, row) THEN Fail(s, "assert")
       ELSE Emit([Release(s, doomed) EXCEPT !.objs[Head(a)] = SubAssign(@, Tail(a), new)],
                 "insert", n, row, 0)

\* ----------------------------------------------------- PdfObjectModel
\* assert(obj == (*it)->GetObject())
SameObject(s, it, obj) == FailIf(s, Ok(s) /\ obj # GetObject(s, it), "assert")
\* assert(childCount == (*it)->CountChildren())
SameCount(s, it, childCount) ==
    IF ~Ok(s) THEN s
    ELSE FailIf(CountChildrenS(s, it), childCount # CountChildren(s, it), "assert")
\* beginRemoveRows(createIndex(GetIndexInParent(), 0, it), 0, CountChildren() - 1)
BeginRemoveRows(s, it) ==
    IF ~Ok(s) THEN s
    ELSE Emit(GetIndexInParentS(s, it), "beginRemoveRows", it, 0, CountChildren(s, it) - 1)

\* a round that invalidates the children before it announces their removal
PrepareAliasLate(s, it, obj, childCount) ==
    Emit(Emit(SetPretendEmpty(
                BeginRemoveRows(
                  Emit(InvalidateChildren(
                         SameCount(SameObject(TouchNode(s, it), it, obj), it, childCount),
                         it),
                       "InvalidateChildren", it, 0, 0),
                  it),
                it, TRUE),
              "SetPretendEmpty", it, 1, 0),
         "endRemoveRows", it, 0, 0)

\* one round of the loop of PrepareForSubtreeChange
PrepareAlias(s, it, obj, childCount) ==
    Emit(Emit(SetPretendEmpty(
                Emit(InvalidateChildren(
                       BeginRemoveRows(
                         SameCount(SameObject(TouchNode(s, it), it, obj), it, childCount),
                         it),
                       it),
                     "InvalidateChildren", it, 0, 0),
                it, TRUE),
              "SetPretendEmpty", it, 1, 0),
         "endRemoveRows", it, 0, 0)

RECURSIVE PrepareAliases(_, _, _, _)
PrepareAliases(s, aliases, obj, childCount) ==
    IF aliases = <<>> \/ ~Ok(s) THEN s
    ELSE PrepareAliases(PrepareAlias(s, Head(aliases), obj, childCount),
                        Tail(aliases), obj, childCount)

\* PrepareForSubtreeChange once childCount is known
PrepareCounted(s, n, childCount) ==
    IF ~Ok(s) \/ childCount = 0 THEN s
    ELSE PrepareAliases(s, GetAliases(s, GetObject(s, n)), GetObject(s, n), childCount)

PrepareForSubtreeChange(s, n) ==
    PrepareCounted(CountChildrenS(s, n), n, CountChildren(s, n))

\* row insertion announced whatever the count
InsertRowsAlways(s, it, count) ==
    Emit(Emit(s, "beginInsertRows", it, 0, count - 1), "endInsertRows", it, 0, 0)

\* if (CountChildren()) { beginInsertRows(nodeIndex, 0, CountChildren() - 1); endInsertRows(); }
InsertRows(s, it, count) ==
    IF count # 0
    THEN Emit(Emit(s, "beginInsertRows", it, 0, count - 1), "endInsertRows", it, 0, 0)
    ELSE s
AnnounceRows(s, it) ==
    IF ~Ok(s) THEN s ELSE InsertRows(CountChildrenS(s, it), it, CountChildren(s, it))

\* a round of SubtreeChanged that leaves the pretend-empty flag as it finds it
ChangedAliasKeepsFlag(s, it, obj) ==
    Emit(AnnounceRows(GetIndexInParentS(SameObject(TouchNode(s, it), it, obj), it), it),
         "dataChanged", it, 0, 0)

\* one round of the loop of SubtreeChanged
ChangedAlias(s, it, obj) ==
    Emit(AnnounceRows(
           GetIndexInParentS(
             Emit(SetPretendEmpty(SameObject(TouchNode(s, it), it, obj), it, FALSE),
                  "SetPretendEmpty", it, 0, 0),
             it),
           it),
         "dataChanged", it, 0, 0)

RECURSIVE ChangedAliases(_, _, _)
ChangedAliases(s, aliases, obj) ==
    IF aliases = <<>> \/ ~Ok(s) THEN s
    ELSE ChangedAliases(ChangedAlias(s, Head(aliases), obj), Tail(aliases), obj)

\* SubtreeChanged once the node's members may be read
SubtreeChangedFor(s, n) ==
    IF ~Ok(s) THEN s ELSE ChangedAliases(s, GetAliases(s, GetObject(s, n)), GetObject(s, n))

SubtreeChanged(s, n) == SubtreeChangedFor(TouchNode(s, n), n)

ValueColumn == 2

\* what a handler did: the state after its preparation, after its mutation and
\* at its return, and the value it returned
Ended(s1, s2, s3, r) == [prep |-> s1, mut |-> s2, done |-> s3, ret |-> r]

\* setData on node n, past its argument checks
SetDataAssigned(s1, s2, n, bytes) ==
    Ended(s1, s2, SubtreeChanged(s2, n),
          Ok(s2) /\ ~SetRawDataThrows(bytes) /\ SetRawData(s1, n, bytes))
SetDataPrepared(s1, n, bytes) == SetDataAssigned(s1, SetRawDataS(s1, n, bytes), n, bytes)
SetDataRun(n, bytes, ub) == SetDataPrepared(PrepareForSubtreeChange(Cur(ub), n), n, bytes)

\* a setData that goes on to the root without checking its arguments
UncheckedSetData == SetDataRun(RootNode, "/N", "intact")

\* a call that returns without touching anything
Untouched == Ended(Cur("intact"), Cur("intact"), Cur("intact"), FALSE)

\* the handler called as o ran as r describes; setsFlag: it updates m_bDocChanged
Ran(o, r, setsFlag) ==
    Returns(o, r.ret, r.prep, r.mut, r.done,
            IF setsFlag /\ Ok(r.done) THEN m_bDocChanged \/ r.ret ELSE m_bDocChanged)

\* the handler ran with released storage intact, or died on its first use of it
EitherWay(o, intact, crash, setsFlag) ==
    \/ Ran(o, intact, setsFlag)
    \/ /\ intact.done.used
       /\ Ran(o, crash, setsFlag)

\* the values tried: any value on an indirect object, unparsable bytes anywhere
Tried(n, bytes) ==
    \/ SetRawDataThrows(bytes)
    \/ /\ Len(nodes[n].m_pObject) = 1
       /\ edits < MaxEdits \/ GetNextVariant(bytes) = ObjectValue(Cur("intact"), n)

\* setData(index, value, role) with a valid index of node n in the value column
SetData(n, bytes) ==
    /\ Running
    /\ Tried(n, bytes)
    /\ IF bytes = NoValue \/ bytes = ""
       THEN Ran([NoOp EXCEPT !.name = "setData", !.node = n, !.column = ValueColumn,
                             !.bytes = bytes],
                Untouched, TRUE)
       ELSE EitherWay([NoOp EXCEPT !.name = "setData", !.node = n, !.column = ValueColumn,
                                   !.bytes = bytes],
                      SetDataRun(n, bytes, "intact"), SetDataRun(n, bytes, "crash"), TRUE)

\* setData with an invalid index, or with an index outside the value column
SetDataRefused(valid, column) ==
    /\ Running
    /\ ~valid \/ column # ValueColumn
    /\ Ran([NoOp EXCEPT !.name = "setData", !.node = IF valid THEN RootNode ELSE NoNode,
                        !.valid = valid, !.column = column, !.bytes = "/N"],
           Untouched, TRUE)

\* the node insertKey and insertElement work on, given the parent index
InsertTarget(p, parentValid) == IF parentValid THEN RootNode ELSE NoNode

\* a handler without a preparation: it leaves s and returns false
Straight(s) == Ended(s, s, s, FALSE)
\* a member call on a null node pointer: it dies unless the call returns
\* before reading a member
NullCall(returnsEarly, ub) ==
    Straight(FailIf(Cur(ub), ~(ub = "intact" /\ returnsEarly), "null_dereference"))

InsertKeyMutated(s1, s2, p) == Ended(s1, s2, SubtreeChanged(s2, p), TRUE)
InsertKeyPrepared(s1, keyName, p, node) ==
    InsertKeyMutated(s1, InsertKeyS(s1, node, keyName), p)
InsertKeyRun(keyName, p, node, ub) ==
    InsertKeyPrepared(PrepareForSubtreeChange(Cur(ub), p), keyName, p, node)

\* insertKey(keyName, parent): parent designates node p when valid
InsertKey(keyName, p, parentValid) ==
    /\ Running
    /\ IF InsertTarget(p, parentValid) = NoNode
       THEN \E ub \in UBOutcomes :
              Ran([NoOp EXCEPT !.name = "insertKey", !.node = p, !.valid = parentValid,
                               !.key = keyName],
                  NullCall(keyName = KeyNull, ub), FALSE)
       ELSE IF ~CanInsertKey(Cur("intact"), InsertTarget(p, parentValid), keyName)
       THEN Ran([NoOp EXCEPT !.name = "insertKey", !.node = p, !.valid = parentValid,
                             !.key = keyName],
                Untouched, FALSE)
       ELSE /\ edits < MaxEdits
            /\ EitherWay([NoOp EXCEPT !.name = "insertKey", !.node = p, !.valid = parentValid,
                                      !.key = keyName],
                         InsertKeyRun(keyName, p, InsertTarget(p, parentValid), "intact"),
                         InsertKeyRun(keyName, p, InsertTarget(p, parentValid), "crash"),
                         FALSE)

InsertElementChecked(s1, p, node, row, realloc) ==
    Ended(s1, InsertElementS(s1, node, row, realloc),
          Emit(InsertElementS(s1, node, row, realloc), "endInsertRows", p, 0, 0), TRUE)
InsertElementRun(row, p, node, realloc, ub) ==
    IF Ok(CanInsertElementS(Cur(ub), node, row)) /\ CanInsertElement(Cur(ub), node, row)
    THEN InsertElementChecked(Emit(CanInsertElementS(Cur(ub), node, row),
                                   "beginInsertRows", p, row, row),
                              p, node, row, realloc)
    ELSE Straight(CanInsertElementS(Cur(ub), node, row))

\* insertElement(row, parent): parent designates node p when valid
InsertElement(row, p, parentValid, realloc) ==
    /\ Running
    /\ IF InsertTarget(p, parentValid) = NoNode
       THEN \E ub \in UBOutcomes :
              Ran([NoOp EXCEPT !.name = "insertElement", !.node = p, !.valid = parentValid,
                               !.row = row],
                  NullCall(row <= 0, ub), FALSE)
       ELSE /\ realloc => /\ edits < MaxEdits
                          /\ CanInsertElement(Cur("intact"), InsertTarget(p, parentValid), row)
            /\ EitherWay([NoOp EXCEPT !.name = "insertElement", !.node = p,
                                      !.valid = parentValid, !.row = row],
                         InsertElementRun(row, p, InsertTarget(p, parentValid), realloc, "intact"),
                         InsertElementRun(row, p, InsertTarget(p, parentValid), realloc, "crash"),
                         FALSE)

\* rowCount(index of n), as the view calls it when it shows the node
RowCount(n) ==
    /\ Running
    /\ Len(n) < MaxDepth
    /\ EitherWay([NoOp EXCEPT !.name = "rowCount", !.node = n],
                 Straight(CountChildrenS(Cur("intact"), n)),
                 Straight(CountChildrenS(Cur("crash"), n)), FALSE)

\* index(row, column, parent) that gives the root for every top-level row
IndexOfAnyRow(s, row, column, parentValid, p) ==
    IF ~parentValid THEN CreateIndex(row, column, RootNode)
    ELSE IF GetChild(s, p, row) = NoNode THEN NoIndex
    ELSE CreateIndex(row, column, GetChild(s, p, row))

\* index(row, column, parent): the index it returns; parent designates node p
\* when valid
IndexOf(s, row, column, parentValid, p) ==
    IF ~parentValid
    THEN (IF row = 0 THEN CreateIndex(row, column, RootNode) ELSE NoIndex)
    ELSE IF GetChild(s, p, row) = NoNode THEN NoIndex
    ELSE CreateIndex(row, column, GetChild(s, p, row))
\* index(row, column, parent): the state it leaves
IndexS(s, parentValid, p) == IF parentValid THEN CountChildrenS(s, p) ELSE s

\* index(row, column, parent), as the view calls it
Index(row, column, p, parentValid) ==
    /\ Running
    /\ parentValid => Len(p) < MaxDepth
    /\ EitherWay([NoOp EXCEPT !.name = "index", !.node = p, !.valid = parentValid,
                              !.row = row, !.column = column,
                              !.res = IndexOf(Cur("intact"), row, column, parentValid, p)],
                 Straight(IndexS(Cur("intact"), parentValid, p)),
                 Straight(IndexS(Cur("crash"), parentValid, p)), FALSE)

\* parent(index) that puts every parent at row 0
ParentOfRowZero(s, valid, n) ==
    IF ~valid \/ s.nodes[n].m_pParent = NoNode THEN NoIndex
    ELSE CreateIndex(0, 0, s.nodes[n].m_pParent)

\* parent(index): the index it returns; index designates node n when valid
ParentOf(s, valid, n) ==
    IF ~valid \/ s.nodes[n].m_pParent = NoNode THEN NoIndex
    ELSE CreateIndex(GetIndexInParent(s, s.nodes[n].m_pParent), 0, s.nodes[n].m_pParent)
\* parent(index): the state it leaves (it aborts or throws)
ParentS(s, valid, n) ==
    IF ~valid THEN Fail(s, "abort")
    ELSE IF s.nodes[n].m_pParent = NoNode THEN FailIf(s, n # RootNode, "logic_error:root")
    ELSE GetIndexInParentS(TouchNode(s, s.nodes[n].m_pParent), s.nodes[n].m_pParent)

\* parent(index), as the view calls it
Parent(n, valid) ==
    /\ Running
    /\ Ran([NoOp EXCEPT !.name = "parent", !.node = n, !.valid = valid,
                        !.res = ParentOf(Cur("intact"), valid, n)],
           Straight(ParentS(Cur("intact"), valid, n)), FALSE)

\* insertRow that returns without throwing
InsertRowReturns(s, row, p) == s

\* insertRow(row, parent): throw std::logic_error whatever the arguments
InsertRowS(s, row, p) == Fail(s, "logic_error:usage")

\* insertRow(row, parent), as a caller of the generic interface calls it
InsertRow(row, p, parentValid) ==
    /\ Running
    /\ Ran([NoOp EXCEPT !.name = "insertRow", !.node = p, !.valid = parentValid, !.row = row],
           Straight(InsertRowS(Cur("intact"), row, p)), FALSE)

\* the node pointer a construction outside any child list gets
StrayNode == <<-2>>
\* the kinds of parentage
ParentageTypes == {"PT_Root", "PT_Contained", "PT_Referenced"}

\* new PdfObjectModelNode(tree, catalog, NULL, key, parentType), as a caller
\* that has no parent node at hand constructs it
Construct(parentKey, parentType) ==
    /\ Running
    /\ parentType # "PT_Root"
    /\ Ran([NoOp EXCEPT !.name = "construct", !.node = NoNode, !.valid = FALSE,
                        !.key = parentKey],
           Straight(NewNode(Cur("intact"), StrayNode, <<CatalogNum>>, NoNode,
                            parentKey, parentType)),
           FALSE)

\* the roles data() is asked for; EditRole stands for every role it ignores
Roles == {"DisplayRole", "DecorationRole", "EditRole"}
DataColumns == {0, 1, ValueColumn}

\* an icon choice that counts the children of every node
DataIconAny(s, n) == IF ~Ok(s) THEN s ELSE CountChildrenS(s, n)

\* column 0, DecorationRole: a reference gets its icon by CountChildren()
DataIcon(s, n) ==
    IF ~Ok(s) THEN s
    ELSE IF IsReference(ObjectValue(s, n)) THEN CountChildrenS(s, n)
    ELSE s
\* column 0, DisplayRole under parent p: an array element is named by GetIndexInParent()
DataName(s, n, p) ==
    IF ~Ok(s) THEN s
    ELSE IF ~IsDictionary(ObjectValue(s, p)) /\ IsArray(ObjectValue(s, p))
    THEN GetIndexInParentS(s, n)
    ELSE s
\* data(index of n, role) in the given column: the state it leaves
DataS(s, n, column, role) ==
    IF column = 0 /\ role = "DisplayRole" THEN
        IF s.nodes[n].m_pParent = NoNode THEN s
        ELSE DataName(TouchObject(TouchNode(s, s.nodes[n].m_pParent), s.nodes[n].m_pParent),
                      n, s.nodes[n].m_pParent)
    ELSE IF column = 0 /\ role = "DecorationRole" THEN DataIcon(TouchObject(s, n), n)
    ELSE IF role = "DisplayRole" THEN TouchObject(s, n)
    ELSE s

\* data(index, role) with a valid index, as the view calls it to paint a cell
Data(n, column, role) ==
    /\ Running
    /\ Len(n) < MaxDepth
    /\ EitherWay([NoOp EXCEPT !.name = "data", !.node = n, !.column = column, !.role = role],
                 Straight(DataS(Cur("intact"), n, column, role)),
                 Straight(DataS(Cur("crash"), n, column, role)), FALSE)
\* data(QModelIndex(), role)
DataInvalid(role) ==
    /\ Running
    /\ Ran([NoOp EXCEPT !.name = "data", !.node = NoNode, !.valid = FALSE, !.role = role],
           Untouched, FALSE)

\* ~PdfObjectModel: delete m_pTree
Destroy ==
    /\ Running
    /\ Ran([NoOp EXCEPT !.name = "destroy", !.node = NoNode, !.valid = FALSE],
           Straight(Exited(DestroyTree(Cur("intact")))), FALSE)

\* PdfObjectModel::InvalidateChildren(index)
ModelInvalidateChildren(n) ==
    /\ Running
    /\ Ran([NoOp EXCEPT !.name = "InvalidateChildren", !.node = n],
           Straight(Emit(Emit(InvalidateChildren(
                                  Emit(Cur("intact"), "layoutAboutToBeChanged", NoNode, 0, 0), n),
                                "layoutChanged", NoNode, 0, 0),
                           "dataChanged", n, 0, 0)),
           FALSE)

\* the parent indexes the insert calls are tried with
Parents == Indexable \cap {RootNode, <<0>>, <<0, 0>>}
Rows == 0..3
\* the rows and columns index() is asked for
IndexRows == -1..2
Columns == {0, ValueColumn}

\* control is back in the event loop: the record of the last call is dropped
EventLoop ==
    /\ err = "none"
    /\ op # NoOp
    /\ op' = NoOp
    /\ ret' = FALSE
    /\ log' = <<>>
    /\ pre' = NoEntry
    /\ mid' = <<NoSnap, NoSnap>>
    /\ UNCHANGED <<objs, nodes, m_nodeAliases, freed, m_bDocChanged, err, edits, frames>>

Next ==
    \/ EventLoop
    \/ \E n \in Indexable : RowCount(n)
    \/ \E n \in Indexable : ModelInvalidateChildren(n)
    \/ \E n \in Indexable, bytes \in Bytes \cup {NoValue} : SetData(n, bytes)
    \/ \E valid \in BOOLEAN, column \in {0, ValueColumn} : SetDataRefused(valid, column)
    \/ \E keyName \in {KeyNull, KeyA, KeyC}, p \in Parents : InsertKey(keyName, p, TRUE)
    \/ \E keyName \in {KeyNull, KeyC} : InsertKey(keyName, NoNode, FALSE)
    \/ \E row \in Rows, p \in Parents, realloc \in BOOLEAN : InsertElement(row, p, TRUE, realloc)
    \/ \E row \in Rows : InsertElement(row, NoNode, FALSE, FALSE)
    \/ \E row \in IndexRows, column \in Columns, p \in Indexable : Index(row, column, p, TRUE)
    \/ \E row \in IndexRows, column \in Columns : Index(row, column, NoNode, FALSE)
    \/ \E n \in Indexable : Parent(n, TRUE)
    \/ Parent(NoNode, FALSE)
    \/ \E row \in {0, 1}, p \in Parents : InsertRow(row, p, TRUE)
    \/ InsertRow(0, NoNode, FALSE)
    \/ \E parentType \in ParentageTypes : Construct(KeyA, parentType)
    \/ Destroy
    \/ \E n \in Indexable, column \in DataColumns, role \in Roles : Data(n, column, role)
    \/ \E role \in Roles : DataInvalid(role)

Spec == Init /\ [][Next]_vars

\* ------------------------------ trunk/src/pdfobjectmodel.cpp (eager)
\* In the trunk variant every node constructor populates the node's children,
\* and so their whole subtrees, before it returns.  The constructors in
\* progress are the call stack `frames`: per call the node under construction
\* and the children PopulateChildren has still to add.

\* deepest nesting of node constructors a run is followed to
MaxFrames == 8

\* the values under the two keys of the catalog, and object 2
TrunkValues == {Null, RefV(1), RefV(2), RefV(9)}
TrunkObjects == {Null, RefV(1), RefV(2), DictV(KeyA :> RefV(2)), ArrV(<<RefV(1), RefV(2)>>)}
\* /Root 1 0 R; object 9 does not exist.  The last two documents have no
\* catalog dictionary.
TrunkDocs ==
    {(1 :> DictV((KeyA :> x) @@ (KeyB :> y))) @@ (2 :> z) :
        x \in TrunkValues, y \in TrunkValues, z \in TrunkObjects}
    \cup {(1 :> Null), (2 :> Null)}

\* *object, object not null
TrunkValue(object) == SubValue(objs[Head(object)], Tail(object))

\* a walk up the parents that finds nothing
TrunkNeverReferenced(parent, ref) == FALSE

\* the while loop of PopulateChildren: some node from parent upwards wraps a
\* reference object with the reference ref
RECURSIVE TrunkReferencedBefore(_, _)
TrunkReferencedBefore(parent, ref) ==
    IF parent = NoNode THEN FALSE
    ELSE IF /\ IsReference(TrunkValue(nodes[parent].m_pObject))
            /\ TrunkValue(nodes[parent].m_pObject).v = ref
    THEN TRUE
    ELSE TrunkReferencedBefore(nodes[parent].m_pParent, ref)

\* one AddNode call PopulateChildren has to make
TrunkChild(object, pt, parentKey) == [object |-> object, pt |-> pt, key |-> parentKey]

\* PopulateChildren of a node that wraps object below parent: the AddNode calls
\* it makes, in order.  A referee that does not exist is the null pointer <<>>.
TrunkPopulateChildren(object, parent) ==
    IF FollowReferences /\ IsReference(TrunkValue(object)) THEN
        IF TrunkReferencedBefore(parent, TrunkValue(object).v) THEN <<>>
        ELSE <<TrunkChild(Resolve(Entry, TrunkValue(object).v), "PT_Referenced", KeyNull)>>
    ELSE IF IsDictionary(TrunkValue(object)) THEN
        [i \in 1..Len(GetKeys(TrunkValue(object))) |->
            TrunkChild(Append(object, GetKeys(TrunkValue(object))[i]), "PT_Contained",
                       GetKeys(TrunkValue(object))[i])]
    ELSE IF IsArray(TrunkValue(object)) THEN
        [i \in 1..Len(TrunkValue(object).v) |->
            TrunkChild(Append(object, i - 1), "PT_Contained", KeyNull)]
    ELSE <<>>

\* the fields of a new node
TrunkFields(object, parent, parentKey, parentType) ==
    [m_pObject |-> object, m_pParent |-> parent, m_parentKey |-> parentKey,
     m_parentType |-> parentType, m_children |-> <<>>]

\* the node constructor, called with the calls in `callers` in progress: it
\* registers the node and enters PopulateChildren, which reads *m_pObject
TrunkNode(n, object, parent, parentKey, parentType, callers) ==
    IF parentType # "PT_Root" /\ parent = NoNode
    THEN /\ err' = "invalid_argument"
         /\ frames' = callers
         /\ UNCHANGED <<nodes, m_nodeAliases>>
    ELSE /\ nodes' = (n :> TrunkFields(object, parent, parentKey, parentType)) @@ nodes
         /\ m_nodeAliases' = NodeCreated([nodes |-> nodes', alias |-> m_nodeAliases], n).alias
         /\ IF object = <<>>
            THEN /\ err' = "null_dereference"
                 /\ frames' = callers
            ELSE /\ err' = "none"
                 /\ frames' = <<[node |-> n, todo |-> TrunkPopulateChildren(object, parent)]>>
                                \o callers

\* the variables the trunk variant does not have or never writes
TrunkRest == <<objs, freed, m_bDocChanged, op, ret, log, pre, mid, edits>>

\* setupModelData and the tree's constructor, up to the root's PopulateChildren
TrunkSetupModelData ==
    /\ err = "none"
    /\ nodes = <<>>
    /\ frames = <<>>
    /\ IF CatalogNum \in DOMAIN objs /\ IsDictionary(objs[CatalogNum])
       THEN TrunkNode(RootNode, <<CatalogNum>>, NoNode, KeyNull, "PT_Root", <<>>)
       ELSE /\ err' = "invalid_argument"
            /\ UNCHANGED <<nodes, m_nodeAliases, frames>>
    /\ UNCHANGED TrunkRest

\* AddNode: the innermost PopulateChildren constructs its next child
TrunkAddNode ==
    /\ err = "none"
    /\ frames # <<>>
    /\ Head(frames).todo # <<>>
    /\ Len(frames) < MaxFrames
    /\ TrunkNode(Append(Head(frames).node, Len(nodes[Head(frames).node].m_children)),
                 Head(Head(frames).todo).object,
                 Head(frames).node,
                 Head(Head(frames).todo).key,
                 Head(Head(frames).todo).pt,
                 <<[Head(frames) EXCEPT !.todo = Tail(@)]>> \o Tail(frames))
    /\ UNCHANGED TrunkRest

\* the innermost constructor returns; AddNode of its caller appends the node
TrunkReturn ==
    /\ err = "none"
    /\ frames # <<>>
    /\ Head(frames).todo = <<>>
    /\ frames' = Tail(frames)
    /\ nodes' = IF Len(frames) > 1
                THEN [nodes EXCEPT ![frames[2].node].m_children = Append(@, Head(frames).node)]
                ELSE nodes
    /\ UNCHANGED <<m_nodeAliases, err>>
    /\ UNCHANGED TrunkRest

\* the adapter's constructor is entered with a document
TrunkInit ==
    /\ objs \in TrunkDocs
    /\ nodes = <<>>
    /\ m_nodeAliases = <<>>
    /\ freed = <<>>
    /\ m_bDocChanged = FALSE
    /\ err = "none"
    /\ op = NoOp
    /\ ret = FALSE
    /\ log = <<>>
    /\ pre = NoEntry
    /\ mid = <<NoSnap, NoSnap>>
    /\ edits = 0
    /\ frames = <<>>

TrunkNext ==
    \/ TrunkSetupModelData
    \/ TrunkAddNode
    \/ TrunkReturn

\* the constructor is one sequential call: it takes its next step until it
\* returns or dies
TrunkSpec == TrunkInit /\ [][TrunkNext]_vars /\ WF_vars(TrunkNext)

\* ------------------------------------------------------ observations
\* the working state of the snapshot S, released storage intact
Work(S) ==
    [objs |-> S.objs, nodes |-> S.nodes, alias |-> S.alias, freed |-> S.freed,
     log |-> <<>>, err |-> "none", ub |-> "intact", used |-> FALSE]

\* what node n reports of its children in s: per child the wrapped object and the key
ChildrenOf(s, n) ==
    [i \in 1..CountChildren(s, n) |->
        <<CountChildrenS(s, n).nodes[CountChildrenS(s, n).nodes[n].m_children[i]].m_pObject,
          CountChildrenS(s, n).nodes[CountChildrenS(s, n).nodes[n].m_children[i]].m_parentKey>>]

\* the child list PopulateChildren makes of the current contents of n's object
Population(s, n) == ChildrenOf(ClearChildren(s, n), n)

\* the set of the entries of a sequence
Range(seq) == {seq[i] : i \in 1..Len(seq)}

\* the nodes of S that wrap the object obj
Wrapping(S, obj) == {m \in DOMAIN S.nodes : S.nodes[m].m_pObject = obj}

\* the alias index of S holds one entry per node of S and nothing else
AliasIndexExact(S) ==
    /\ \A obj \in DOMAIN S.alias :
          /\ Range(S.alias[obj]) = Wrapping(S, obj)
          /\ Len(S.alias[obj]) = Cardinality(Wrapping(S, obj))
    /\ \A n \in DOMAIN S.nodes :
          CountAliases(S, S.nodes[n].m_pObject) = Cardinality(Wrapping(S, S.nodes[n].m_pObject))

\* the last call was setData(index of a node, bytes) past its argument checks
SetDataRan ==
    /\ op.name = "setData"
    /\ op.valid
    /\ op.column = ValueColumn
    /\ op.bytes \notin {"", NoValue}

\* ---------------------------------------------------------------- claims
\* C1: while the adapter runs, for every object o CountAliases(o) is the number
\* of live nodes whose GetObject() is o: the alias index holds exactly one entry
\* per live node and none for a destroyed node, after every call and at the
\* stages of a call.  (The tree a call leaves is the tree held when control is
\* back in the event loop.)
C1_AliasIndexExact ==
    err = "none" =>
        /\ Running => AliasIndexExact(Entry)
        /\ AliasIndexExact(mid[1])
        /\ AliasIndexExact(mid[2])

\* C1: a setData destroyed nodes and two live nodes alias one object
C1_Witness ==
    /\ err = "none"
    /\ SetDataRan
    /\ Cardinality(DOMAIN nodes) < Cardinality(DOMAIN pre.nodes)
    /\ \E obj \in DOMAIN m_nodeAliases : Len(m_nodeAliases[obj]) = 2

\* C2: after a setData on the index of a node completes, all alias nodes of the
\* node's object report the same CountChildren(), the same ordered children
\* (objects and keys) and the same cell value.
C2_AliasesAgree ==
    (err = "none" /\ SetDataRan /\ op.node \in DOMAIN nodes) =>
        \A a, b \in Wrapping(Entry, nodes[op.node].m_pObject) :
            /\ CountChildren(Work(Entry), a) = CountChildren(Work(Entry), b)
            /\ ChildrenOf(Work(Entry), a) = ChildrenOf(Work(Entry), b)
            /\ ObjectValue(Work(Entry), a) = ObjectValue(Work(Entry), b)

\* C3: between calls, every live node whose children are marked populated has
\* the child list that populating it from the current contents of its object
\* gives.
C3_PopulatedIsCurrent ==
    err = "none" =>
        \A n \in DOMAIN nodes :
            nodes[n].m_bChildrenLoaded =>
                ChildrenOf(SetPretendEmpty(Work(Entry), n, FALSE), n)
                    = Population(SetPretendEmpty(Work(Entry), n, FALSE), n)

\* every non-root node of S has a parent in S and occurs in the parent's child
\* list at exactly one position, the one GetIndexInParent() returns without throwing
ParentLinks(S) ==
    \A n \in DOMAIN S.nodes :
        IF n = RootNode THEN S.nodes[n].m_pParent = NoNode
        ELSE /\ S.nodes[n].m_pParent \in DOMAIN S.nodes
             /\ Cardinality({i \in 1..Len(S.nodes[S.nodes[n].m_pParent].m_children) :
                                S.nodes[S.nodes[n].m_pParent].m_children[i] = n}) = 1
             /\ Ok(GetIndexInParentS(Work(S), n))
             /\ S.nodes[S.nodes[n].m_pParent].m_children[GetIndexInParent(Work(S), n) + 1] = n

\* C4: while the adapter runs, every live non-root node has a live parent and
\* occurs in the parent's child list at exactly one position, the one
\* GetIndexInParent() returns, and GetIndexInParent() on it does not throw;
\* after every call and at the stages of a call.
C4_ParentLinks ==
    err = "none" =>
        /\ Running => ParentLinks(Entry)
        /\ ParentLinks(mid[1])
        /\ ParentLinks(mid[2])

\* C4: a node at the second position of a repopulated child list
C4_Witness ==
    /\ err = "none"
    /\ SetDataRan
    /\ ret
    /\ \E n \in DOMAIN nodes :
          /\ n # RootNode
          /\ nodes[n].m_pParent = op.node
          /\ GetIndexInParent(Work(Entry), n) = 1

\* position of the first event e on node n with first argument a in the log of
\* the last call, 0 when there is none
FirstAt(e, n, a) ==
    IF \E i \in 1..Len(log) : log[i].e = e /\ log[i].n = n /\ log[i].a = a
    THEN CHOOSE i \in 1..Len(log) :
            /\ log[i].e = e /\ log[i].n = n /\ log[i].a = a
            /\ \A j \in 1..(i - 1) : ~(log[j].e = e /\ log[j].n = n /\ log[j].a = a)
    ELSE 0

\* number of events e on node n with first argument a in the log of the last call
CountOf(e, n, a) ==
    Cardinality({i \in 1..Len(log) : log[i].e = e /\ log[i].n = n /\ log[i].a = a})

\* the number of children PopulateChildren makes for the value val
NumComponents(S, val) ==
    IF IsReference(val) THEN (IF val.v \in DOMAIN S.objs THEN 1 ELSE 0)
    ELSE IF IsDictionary(val) THEN Cardinality(DOMAIN val.v)
    ELSE IF IsArray(val) THEN Len(val.v)
    ELSE 0

\* C5: in a setData on a node that has children, for every alias of the node
\* the removal of rows [0, childCount-1] is announced, then the alias's
\* InvalidateChildren() runs, then SetPretendEmpty(true); SetRawData is called
\* only after that has happened for every alias, and no row insertion is
\* announced before it; a call that returns has called SetRawData.
C5_PrepareOrder ==
    (SetDataRan /\ CountChildren(Work(pre), op.node) > 0) =>
        /\ \A a \in Wrapping(pre, pre.nodes[op.node].m_pObject) :
              /\ FirstAt("InvalidateChildren", a, 0) # 0 =>
                    /\ FirstAt("beginRemoveRows", a, 0) # 0
                    /\ FirstAt("beginRemoveRows", a, 0) < FirstAt("InvalidateChildren", a, 0)
                    /\ log[FirstAt("beginRemoveRows", a, 0)].b
                          = CountChildren(Work(pre), op.node) - 1
              /\ FirstAt("SetPretendEmpty", a, 1) # 0 =>
                    /\ FirstAt("InvalidateChildren", a, 0) # 0
                    /\ FirstAt("InvalidateChildren", a, 0) < FirstAt("SetPretendEmpty", a, 1)
              /\ FirstAt("SetRawData", op.node, 0) # 0 =>
                    /\ FirstAt("SetPretendEmpty", a, 1) # 0
                    /\ FirstAt("SetPretendEmpty", a, 1) < FirstAt("SetRawData", op.node, 0)
        /\ \A i \in 1..Len(log) :
              log[i].e = "beginInsertRows" =>
                  /\ FirstAt("SetRawData", op.node, 0) # 0
                  /\ FirstAt("SetRawData", op.node, 0) < i
        /\ err = "none" => FirstAt("SetRawData", op.node, 0) # 0

\* C5: a setData that overwrote an object with children wrapped by two nodes
C5_Witness ==
    /\ err = "none"
    /\ SetDataRan
    /\ ret
    /\ CountChildren(Work(pre), op.node) = 2
    /\ Cardinality(Wrapping(pre, pre.nodes[op.node].m_pObject)) = 2
    /\ FirstAt("assign", op.node, 0) # 0

\* the last call ran SubtreeChanged on the node of its index
SubtreeChangedRan ==
    \/ SetDataRan
    \/ op.name = "insertKey" /\ ret

\* C6: in a call that ran SubtreeChanged, for every alias of the target node
\* pretend-empty is cleared once and first; the insertion of rows
\* [0, newChildCount-1] is announced if and only if the alias now has a child;
\* and dataChanged for the alias is emitted exactly once, after the insertion.
C6_SubtreeChangedOrder ==
    (err = "none" /\ SubtreeChangedRan) =>
        \A a \in Wrapping(mid[2], mid[2].nodes[op.node].m_pObject) :
            /\ CountOf("SetPretendEmpty", a, 0) = 1
            /\ CountOf("dataChanged", a, 0) = 1
            /\ FirstAt("SetPretendEmpty", a, 0) < FirstAt("dataChanged", a, 0)
            /\ ~nodes[a].m_bPretendEmpty
            /\ CountOf("beginInsertRows", a, 0)
                  = (IF CountChildren(Work(Entry), a) >= 1 THEN 1 ELSE 0)
            /\ FirstAt("beginInsertRows", a, 0) # 0 =>
                  /\ log[FirstAt("beginInsertRows", a, 0)].b = CountChildren(Work(Entry), a) - 1
                  /\ FirstAt("SetPretendEmpty", a, 0) < FirstAt("beginInsertRows", a, 0)
                  /\ FirstAt("beginInsertRows", a, 0) < FirstAt("dataChanged", a, 0)

\* C6: of two aliases one got rows announced, the other has no child and got none
C6_Witness ==
    /\ err = "none"
    /\ SubtreeChangedRan
    /\ \E a, b \in Wrapping(mid[2], mid[2].nodes[op.node].m_pObject) :
          /\ FirstAt("beginInsertRows", a, 0) # 0
          /\ FirstAt("beginInsertRows", b, 0) = 0
          /\ FirstAt("dataChanged", b, 0) # 0

\* C7: a setData whose bytes fail to parse returns false, leaves the document
\* and the changed flag as they were, and every alias of the target reports
\* the same ordered children (objects and keys) as before the call.
C7_FailedParseKeepsAll ==
    (err = "none" /\ SetDataRan /\ SetRawDataThrows(op.bytes)) =>
        /\ ~ret
        /\ objs = pre.objs
        /\ m_bDocChanged = pre.changed
        /\ \A a \in Wrapping(pre, pre.nodes[op.node].m_pObject) :
              /\ a \in DOMAIN nodes
              /\ ChildrenOf(Work(Entry), a) = ChildrenOf(Work(pre), a)

\* C8: a SetRawData whose bytes do not parse leaves the node as it was: the
\* object is not overwritten, the child list, the populated flag and the alias
\* index are unchanged, and setData, which catches the error, returns false.
C8_FailedSetRawDataKeepsNode ==
    (SetDataRan /\ SetRawDataThrows(op.bytes) /\ FirstAt("SetRawData", op.node, 0) # 0) =>
        /\ mid[2] = mid[1]
        /\ FirstAt("assign", op.node, 0) = 0
        /\ FirstAt("InvalidateChildren", op.node, 0) # 0 =>
              FirstAt("InvalidateChildren", op.node, 0) < FirstAt("SetRawData", op.node, 0)
        /\ ~ret

\* C8: SetRawData failed on a node whose children were marked populated
C8_Witness ==
    /\ err = "none"
    /\ SetDataRan
    /\ SetRawDataThrows(op.bytes)
    /\ FirstAt("SetRawData", op.node, 0) # 0
    /\ mid[1].nodes[op.node].m_bChildrenLoaded
    /\ Cardinality(Wrapping(mid[1], mid[1].nodes[op.node].m_pObject)) = 2

\* C9: after a SetRawData that parsed, the object holds the parsed value, the
\* nodes that were children of the node are destroyed and out of the alias
\* index, and the next CountChildren() is the number of components of the new
\* value (0 for a scalar).
C9_SetRawDataEffects ==
    (SetDataRan /\ FirstAt("assign", op.node, 0) # 0) =>
        /\ ObjectValue(Work(mid[2]), op.node) = GetNextVariant(op.bytes)
        /\ mid[2].nodes[op.node].m_children = <<>>
        /\ ~mid[2].nodes[op.node].m_bChildrenLoaded
        /\ \A k \in Range(pre.nodes[op.node].m_children) \cup Range(mid[1].nodes[op.node].m_children) :
              /\ k \notin DOMAIN mid[2].nodes
              /\ \A obj \in DOMAIN mid[2].alias : k \notin Range(mid[2].alias[obj])
        /\ CountChildren(SetPretendEmpty(Work(mid[2]), op.node, FALSE), op.node)
              = NumComponents(mid[2], GetNextVariant(op.bytes))
        /\ err = "none" =>
              CountChildren(Work(Entry), op.node) = NumComponents(Entry, GetNextVariant(op.bytes))

\* C9: an array with two populated children was overwritten by a name
C9_Witness ==
    /\ err = "none"
    /\ SetDataRan
    /\ ret
    /\ IsArray(ObjectValue(Work(pre), op.node))
    /\ Len(pre.nodes[op.node].m_children) = 2
    /\ ObjectValue(Work(Entry), op.node) = NameV(1)
    /\ CountChildren(Work(Entry), op.node) = 0

\* C10: SetRawData, and setData with it, returns true when the parsed value
\* differs from the object's previous value and false when it equals it.
C10_ReturnsWhetherChanged ==
    (err = "none" /\ SetDataRan /\ ~SetRawDataThrows(op.bytes)) =>
        ret = (GetNextVariant(op.bytes) # ObjectValue(Work(pre), op.node))

\* the rows CanInsertElement is asked about
AskedRows == 0..5

\* C11: CanInsertElement(row) holds exactly when the node's object is an array
\* and 0 < row <= the array's current element count (for an array of length 3:
\* true for rows 1, 2, 3, false for row 0 and rows >= 4; false for every row on
\* a non-array and on an empty array).
C11_CanInsertElementExact ==
    err = "none" =>
        \A n \in DOMAIN nodes, row \in AskedRows :
            CanInsertElement(Work(Entry), n, row)
                = /\ IsArray(ObjectValue(Work(Entry), n))
                  /\ 0 < row
                  /\ row <= Len(ObjectValue(Work(Entry), n).v)

\* the elements of the array of node n in S
Elements(S, n) == ObjectValue(Work(S), n).v

\* C12: an InsertElement(row) that was allowed makes the array one element
\* longer, with null at 0-based index row, the elements before row in place
\* and the elements from row on one position up, values kept.
C12_InsertElementShifts ==
    (err = "none" /\ op.name = "insertElement" /\ ret) =>
        /\ Len(Elements(Entry, InsertTarget(op.node, op.valid)))
              = Len(Elements(pre, InsertTarget(op.node, op.valid))) + 1
        /\ Elements(Entry, InsertTarget(op.node, op.valid))[op.row + 1] = Null
        /\ \A i \in 1..Len(Elements(pre, InsertTarget(op.node, op.valid))) :
              Elements(Entry, InsertTarget(op.node, op.valid))[IF i <= op.row THEN i ELSE i + 1]
                  = Elements(pre, InsertTarget(op.node, op.valid))[i]

\* C12: a null was inserted between the two names of an array
C12_Witness ==
    /\ err = "none"
    /\ op.name = "insertElement"
    /\ ret
    /\ op.row = 1
    /\ Elements(pre, InsertTarget(op.node, op.valid)) = <<NameV(1), NameV(2)>>
    /\ Elements(Entry, InsertTarget(op.node, op.valid)) = <<NameV(1), Null, NameV(2)>>

\* the key names CanInsertKey is asked about
AskedKeys == {KeyNull, KeyA, KeyB, KeyC}

\* the entries of the dictionary of node n in S
Entries(S, n) == ObjectValue(Work(S), n).v

\* C13: CanInsertKey(k) holds exactly when the node's object is a dictionary,
\* k is not the null name and the dictionary has no entry k; an InsertKey(k)
\* that was allowed adds the one entry k with a null value, leaves the other
\* entries as they were, and CanInsertKey(k) is false afterwards.
C13_InsertKeyOnce ==
    err = "none" =>
        /\ Running => \A n \in DOMAIN nodes, k \in AskedKeys :
              CanInsertKey(Work(Entry), n, k)
                  = /\ IsDictionary(ObjectValue(Work(Entry), n))
                    /\ k # KeyNull
                    /\ k \notin DOMAIN Entries(Entry, n)
        /\ (op.name = "insertKey" /\ ret) =>
              /\ CanInsertKey(Work(pre), InsertTarget(op.node, op.valid), op.key)
              /\ DOMAIN Entries(Entry, InsertTarget(op.node, op.valid))
                    = DOMAIN Entries(pre, InsertTarget(op.node, op.valid)) \cup {op.key}
              /\ Entries(Entry, InsertTarget(op.node, op.valid))[op.key] = Null
              /\ \A k \in DOMAIN Entries(pre, InsertTarget(op.node, op.valid)) :
                    Entries(Entry, InsertTarget(op.node, op.valid))[k]
                        = Entries(pre, InsertTarget(op.node, op.valid))[k]
              /\ ~CanInsertKey(Work(Entry), InsertTarget(op.node, op.valid), op.key)

\* C13: a key was added to a dictionary that had two entries
C13_Witness ==
    /\ err = "none"
    /\ op.name = "insertKey"
    /\ ret
    /\ op.key = KeyC
    /\ DOMAIN Entries(pre, InsertTarget(op.node, op.valid)) = {KeyA, KeyB}
    /\ DOMAIN Entries(Entry, InsertTarget(op.node, op.valid)) = {KeyA, KeyB, KeyC}

\* the last call was an insertKey or insertElement with a valid parent index
\* that inserted
InsertedUnderIndex ==
    /\ op.name \in {"insertKey", "insertElement"}
    /\ op.valid
    /\ ret

\* C14: insertElement(row, parent) and insertKey(keyName, parent) with a valid
\* parent index check eligibility on the node of that index, mutate the object
\* of that node and of no other node, and their notifications are about that
\* node.
C14_InsertsUnderParent ==
    (err = "none" /\ InsertedUnderIndex) =>
        /\ op.name = "insertKey" => CanInsertKey(Work(pre), op.node, op.key)
        /\ op.name = "insertElement" => CanInsertElement(Work(pre), op.node, op.row)
        /\ \A i \in 1..Len(log) :
              log[i].e \in {"AddKey", "insert"} => log[i].n = op.node
        /\ \A i \in 1..Len(log) :
              log[i].e \in {"beginInsertRows", "beginRemoveRows", "dataChanged"} =>
                  pre.nodes[log[i].n].m_pObject = pre.nodes[op.node].m_pObject
        /\ \A m \in DOMAIN pre.nodes :
              ObjectValue(Work(pre), m) # ObjectValue(Work([pre EXCEPT !.objs = objs]), m) =>
                  \/ IsPrefix(pre.nodes[m].m_pObject, pre.nodes[op.node].m_pObject)
                  \/ IsPrefix(pre.nodes[op.node].m_pObject, pre.nodes[m].m_pObject)

\* C15: index(row, column, parent) with an invalid parent gives an index for
\* the root at row 0 and the invalid index at every other row; with a valid
\* parent it gives an index for the parent node's n-th child, populating the
\* node, when 0 <= n < CountChildren(), and the invalid index otherwise.
\* (Every tree the adapter holds is also held between two calls, where every
\* node is tried as the parent; the calls the view made are checked as made.)
C15_IndexResolves ==
    err = "none" =>
        /\ \A row \in IndexRows \cup Rows, column \in Columns :
              IndexOf(Work(Entry), row, column, FALSE, NoNode)
                  = (IF row = 0 THEN CreateIndex(0, column, RootNode) ELSE NoIndex)
        /\ Running => \A p \in DOMAIN nodes :
              LET kids == CountChildrenS(Work(Entry), p).nodes[p].m_children
              IN \A row \in IndexRows \cup Rows, column \in Columns :
                    IndexOf(Work(Entry), row, column, TRUE, p)
                        = (IF 0 <= row /\ row < Len(kids)
                           THEN CreateIndex(row, column, kids[row + 1])
                           ELSE NoIndex)
        /\ (op.name = "index" /\ op.valid) =>
              /\ nodes[op.node].m_bChildrenLoaded
              /\ op.res.valid = (0 <= op.row /\ op.row < Len(nodes[op.node].m_children))
              /\ op.res.valid =>
                    /\ op.res.ptr = nodes[op.node].m_children[op.row + 1]
                    /\ op.res.row = op.row
                    /\ op.res.column = op.column
        /\ (op.name = "index" /\ ~op.valid) =>
              op.res = (IF op.row = 0 THEN CreateIndex(0, op.column, RootNode) ELSE NoIndex)

\* C15: index() populated a node and gave an index for its second child
C15_Witness ==
    /\ err = "none"
    /\ op.name = "index"
    /\ op.valid
    /\ op.row = 1
    /\ ~pre.nodes[op.node].m_bChildrenLoaded
    /\ op.res = CreateIndex(1, op.column, nodes[op.node].m_children[2])

\* parent(i) of the index i, in the state s that index() left, is the invalid
\* index for the root and otherwise the index of node p at row
\* GetIndexInParent() and column 0, and index() on it gives back the node of i
RoundTrip(s, i, p) ==
    LET up == ParentOf(s, TRUE, i.ptr)
        back == IndexOf(s, GetIndexInParent(s, i.ptr), 0, up.valid, up.ptr)
    IN /\ Ok(ParentS(s, TRUE, i.ptr))
       /\ up = (IF i.ptr = RootNode THEN NoIndex
                ELSE CreateIndex(GetIndexInParent(s, p), 0, p))
       /\ back.valid
       /\ back.ptr = i.ptr

\* C16: for every valid index i that index(row, column, p) gives, parent(i) is
\* the invalid index when i designates the root and otherwise designates p's
\* node at row GetIndexInParent() of that node and column 0, and
\* index(n.GetIndexInParent(), 0, parent(i)) designates the node n of i.
\* (Every node is tried as p in the trees held between two calls.)
C16_IndexParentRoundTrip ==
    err = "none" =>
        /\ \A row \in IndexRows, column \in Columns :
              LET i == IndexOf(Work(Entry), row, column, FALSE, NoNode)
              IN i.valid => RoundTrip(Work(Entry), i, NoNode)
        /\ Running => \A p \in DOMAIN nodes :
              LET s == IndexS(Work(Entry), TRUE, p)
              IN \A row \in IndexRows, column \in Columns :
                    LET i == IndexOf(Work(Entry), row, column, TRUE, p)
                    IN i.valid => RoundTrip(s, i, p)
        /\ (op.name = "parent" /\ op.valid) =>
              op.res = (IF op.node = RootNode THEN NoIndex
                        ELSE CreateIndex(GetIndexInParent(Work(Entry), nodes[op.node].m_pParent),
                                         0, nodes[op.node].m_pParent))

\* C16: parent() of a node under the root's second child gave row 1
C16_Witness ==
    /\ err = "none"
    /\ op.name = "parent"
    /\ op.valid
    /\ op.res.valid
    /\ op.res.row = 1
    /\ IndexOf(Work(Entry), 0, 0, TRUE, op.res.ptr).ptr = op.node

\* what the child list kids holds in s: per position the wrapped object, the
\* parent key and the kind of parentage
Listed(s, kids) ==
    [i \in 1..Len(kids) |-> <<s.nodes[kids[i]].m_pObject,
                              s.nodes[kids[i]].m_parentKey,
                              s.nodes[kids[i]].m_parentType>>]

\* the child list of n after InvalidateChildren() and a new query of its children
Requeried(s, n) ==
    Listed(CountChildrenS(InvalidateChildren(s, n), n),
           CountChildrenS(InvalidateChildren(s, n), n).nodes[n].m_children)

\* node n of s is live, populated, and wraps a dictionary or an array
PopulatedContainer(s, n) ==
    /\ s.nodes[n].live
    /\ s.nodes[n].m_bChildrenLoaded
    /\ Head(s.nodes[n].m_pObject) # 0
    /\ IsDictionary(ObjectValue(s, n)) \/ IsArray(ObjectValue(s, n))

ContainedChildren(s, list, obj, val) ==
    IF IsDictionary(val) THEN
        /\ Len(list) = Cardinality(DOMAIN val.v)
        /\ \A i \in 1..Len(list) :
              /\ list[i][2] \in DOMAIN val.v
              /\ list[i][1] = Append(obj, list[i][2])
              /\ list[i][3] = "PT_Contained"
              /\ SubValue(s.objs[Head(list[i][1])], Tail(list[i][1])) = val.v[list[i][2]]
        /\ \A i, j \in 1..Len(list) : i < j => list[i][2] < list[j][2]
    ELSE IF IsArray(val) THEN
        /\ Len(list) = Len(val.v)
        /\ \A i \in 1..Len(list) :
              /\ list[i] = <<Append(obj, i - 1), KeyNull, "PT_Contained">>
              /\ SubValue(s.objs[Head(list[i][1])], Tail(list[i][1])) = val.v[i]
    ELSE list = <<>>

\* node n of s wraps an object that is in the document and is no reference
PlainNode(s, n) ==
    /\ s.nodes[n].live
    /\ ~IsWild(s, n)
    /\ ~IsReference(ObjectValue(s, n))

\* the child list that populating n from scratch makes in s
Fresh(s, n) ==
    Listed(CountChildrenS(ClearChildren(s, n), n),
           CountChildrenS(ClearChildren(s, n), n).nodes[n].m_children)

\* C18: populating a node whose object is no reference gives, for a dictionary,
\* one Contained child per key in the order of the keys, each with that key as
\* its parent key; for an array one Contained child per element in array order,
\* each with the null key; and no child for any other object.
C18_PopulationOfContainers ==
    err = "none" =>
        /\ Running => \A n \in DOMAIN nodes :
              PlainNode(Work(Entry), n) =>
                  ContainedChildren(Work(Entry), Fresh(Work(Entry), n),
                                    nodes[n].m_pObject, ObjectValue(Work(Entry), n))
        /\ (/\ op.name = "rowCount"
            /\ ~pre.nodes[op.node].m_bChildrenLoaded
            /\ PlainNode(Work(pre), op.node)) =>
              /\ nodes[op.node].m_bChildrenLoaded
              /\ ContainedChildren(Work(Entry), Listed(Work(Entry), nodes[op.node].m_children),
                                   nodes[op.node].m_pObject, ObjectValue(Work(pre), op.node))

\* C18: rowCount() populated a node that wraps an array of two elements
C18_Witness ==
    /\ err = "none"
    /\ op.name = "rowCount"
    /\ ~pre.nodes[op.node].m_bChildrenLoaded
    /\ PlainNode(Work(pre), op.node)
    /\ IsArray(ObjectValue(Work(Entry), op.node))
    /\ Len(nodes[op.node].m_children) = 2

\* list is what the claim says of the children of a node wrapping the
\* reference val in s
ReferencedChild(s, list, val) ==
    IF val.v \in DOMAIN s.objs
    THEN list = << <<(<<val.v>>), KeyNull, "PT_Referenced">> >>
    ELSE list = <<>>

\* node n of s wraps a reference that is in the document
ReferenceNode(s, n) ==
    /\ s.nodes[n].live
    /\ ~IsWild(s, n)
    /\ IsReference(ObjectValue(s, n))

\* C19: with references followed, populating a node that wraps a reference
\* gives exactly one child, of kind Referenced, wrapping the object the
\* reference resolves to, and gives no child and raises no error when the
\* document has no such object.
C19_ReferenceChild ==
    (err = "none" /\ FollowReferences) =>
        /\ Running => \A n \in DOMAIN nodes :
              ReferenceNode(Work(Entry), n) =>
                  /\ Ok(CountChildrenS(ClearChildren(Work(Entry), n), n))
                  /\ ReferencedChild(Work(Entry), Fresh(Work(Entry), n),
                                     ObjectValue(Work(Entry), n))
        /\ (/\ op.name = "rowCount"
            /\ ~pre.nodes[op.node].m_bChildrenLoaded
            /\ ReferenceNode(Work(pre), op.node)) =>
              /\ nodes[op.node].m_bChildrenLoaded
              /\ ReferencedChild(Work(Entry), Listed(Work(Entry), nodes[op.node].m_children),
                                 ObjectValue(Work(pre), op.node))

\* C19: rowCount() populated a node that wraps a dangling reference
C19_Witness ==
    /\ err = "none"
    /\ op.name = "rowCount"
    /\ ~pre.nodes[op.node].m_bChildrenLoaded
    /\ ReferenceNode(Work(pre), op.node)
    /\ ObjectValue(Work(pre), op.node).v \notin DOMAIN objs
    /\ nodes[op.node].m_bChildrenLoaded
    /\ nodes[op.node].m_children = <<>>

\* S holds one node, the root: it wraps the catalog, has no parent and no
\* children, is not populated, and is the one entry of the alias index
RootOnly(S) ==
    /\ DOMAIN S.nodes = {RootNode}
    /\ S.nodes[RootNode].live
    /\ S.nodes[RootNode].m_pObject = <<CatalogNum>>
    /\ S.nodes[RootNode].m_pParent = NoNode
    /\ S.nodes[RootNode].m_parentType = "PT_Root"
    /\ ~S.nodes[RootNode].m_bChildrenLoaded
    /\ S.nodes[RootNode].m_children = <<>>
    /\ DOMAIN S.alias = {<<CatalogNum>>}
    /\ S.alias[<<CatalogNum>>] = <<RootNode>>

\* the current state is the one the constructor left for a document of Docs
Constructed ==
    /\ op = NoOp
    /\ edits = 0
    /\ \E doc \in Docs :
          /\ objs = SetupModelData(doc).objs
          /\ nodes = SetupModelData(doc).nodes
          /\ m_nodeAliases = SetupModelData(doc).alias

\* C20: constructing the tree creates exactly one node, the root, which has no
\* parent and is not populated, and leaves exactly one entry in the alias
\* index; a node other than the root exists only under a parent whose children
\* CountChildren() or GetChild() has populated.
C20_ConstructionMakesRootOnly ==
    /\ \A doc \in Docs : Ok(SetupModelData(doc)) /\ RootOnly(SetupModelData(doc))
    /\ Constructed => (err = "none" /\ RootOnly(Entry))
    /\ err = "none" =>
          \A n \in DOMAIN nodes \ {RootNode} :
              /\ nodes[n].m_pParent \in DOMAIN nodes
              /\ nodes[nodes[n].m_pParent].m_bChildrenLoaded
              /\ n \in Range(nodes[nodes[n].m_pParent].m_children)
    /\ err = "none" =>
          \A n \in DOMAIN nodes :
              ~nodes[n].m_bChildrenLoaded => nodes[n].m_children = <<>>

\* C20: the state the constructor left, from which the first rowCount() on
\* the root is still to come
C20_Witness ==
    /\ Constructed
    /\ err = "none"
    /\ RootOnly(Entry)
    /\ CountChildren(Work(Entry), RootNode) = 2

\* with its flag set, node n of the tree S counts no children, has no n-th
\* child for any n, the calls leave every node, object and alias entry as it
\* was, and clearing the flag gives back the tree as it was before
HiddenKept(S, n) ==
    LET hidden == SetPretendEmpty(Work(S), n, TRUE)
        shown == SetPretendEmpty(CountChildrenS(hidden, n), n, FALSE)
    IN /\ CountChildren(hidden, n) = 0
       /\ CountChildrenS(hidden, n) = hidden
       /\ \A i \in IndexRows \cup Rows : GetChild(hidden, n, i) = NoNode
       /\ shown = SetPretendEmpty(Work(S), n, FALSE)
       /\ S.nodes[n].m_bChildrenLoaded =>
             /\ CountChildrenS(shown, n) = shown
             /\ CountChildren(shown, n) = Len(S.nodes[n].m_children)
             /\ \A i \in 1..Len(S.nodes[n].m_children) :
                   GetChild(shown, n, i - 1) = S.nodes[n].m_children[i]

\* C21: while the pretend-empty flag of a node is set, CountChildren() is 0 and
\* GetChild(n) finds nothing for every n, neither call populates the node or
\* creates or destroys a node, and the cached child list is kept: once the flag
\* is cleared the node reports the children it had cached.  Checked for every
\* live node of the tree between two calls, and for the nodes whose flag is set
\* in the trees a call left after PrepareForSubtreeChange and after its mutation.
C21_PretendEmptyHides ==
    err = "none" =>
        /\ Running => \A n \in LiveNodes(Entry) : HiddenKept(Entry, n)
        /\ \A k \in 1..2 : \A n \in LiveNodes(mid[k]) :
              mid[k].nodes[n].m_bPretendEmpty =>
                  /\ HiddenKept(mid[k], n)
                  /\ CountChildren(Work(mid[k]), n) = 0
                  /\ CountChildrenS(Work(mid[k]), n) = Work(mid[k])

\* C21: a call left a dictionary node pretending to be empty during its mutation
C21_Witness ==
    /\ err = "none"
    /\ \E n \in LiveNodes(mid[1]) :
          /\ mid[1].nodes[n].m_bPretendEmpty
          /\ ~IsWild(Work(mid[1]), n)
          /\ IsDictionary(ObjectValue(Work(mid[1]), n))
          /\ CountChildren(Work(mid[1]), n) = 0
          /\ CountChildren(SetPretendEmpty(Work(mid[1]), n, FALSE), n) = 2

\* the child numbers GetChild() is asked for
AskedChildren == -3..4

\* C22: GetChild(n) on a node that does not pretend to be empty populates the
\* node if needed and returns its n-th child for 0 <= n < CountChildren(), and
\* returns null for every other n, negative n included.
C22_GetChildInRange ==
    err = "none" =>
        /\ Running =>
              \A p \in LiveNodes(Entry) :
                  ~nodes[p].m_bPretendEmpty =>
                      LET after == CountChildrenS(Work(Entry), p)
                      IN /\ Ok(after)
                         /\ after.nodes[p].m_bChildrenLoaded
                         /\ nodes[p].m_bChildrenLoaded => after = Work(Entry)
                         /\ \A n \in AskedChildren :
                               GetChild(Work(Entry), p, n)
                                   = (IF 0 <= n /\ n < Len(after.nodes[p].m_children)
                                      THEN after.nodes[p].m_children[n + 1]
                                      ELSE NoNode)
        /\ (op.name = "index" /\ op.valid /\ ~pre.nodes[op.node].m_bPretendEmpty) =>
              /\ nodes[op.node].m_bChildrenLoaded
              /\ op.res.ptr = GetChild(Work(pre), op.node, op.row)
              /\ (op.res.ptr # NoNode) = (0 <= op.row /\ op.row < CountChildren(Work(Entry), op.node))

\* C22: GetChild(-1) populated a node with two children and returned null
C22_Witness ==
    /\ err = "none"
    /\ op.name = "index"
    /\ op.valid
    /\ op.row = -1
    /\ ~pre.nodes[op.node].m_bChildrenLoaded
    /\ nodes[op.node].m_bChildrenLoaded
    /\ Len(nodes[op.node].m_children) = 2
    /\ op.res = NoIndex

\* C23: insertRow(row, parent) fails with a logic_error for every row and
\* every parent index and changes nothing: no object, no node, no entry of the
\* alias index, not the changed flag, and it emits no notification.
C23_InsertRowRefuses ==
    op.name = "insertRow" =>
        /\ err = "logic_error:usage"
        /\ ~ret
        /\ log = <<>>
        /\ objs = pre.objs
        /\ nodes = pre.nodes
        /\ m_nodeAliases = pre.alias
        /\ freed = pre.freed
        /\ m_bDocChanged = pre.changed

\* C23: insertRow(1, index of the root's first child) was refused
C23_Witness ==
    /\ op.name = "insertRow"
    /\ op.valid
    /\ op.row = 1
    /\ op.node = <<0>>
    /\ err = "logic_error:usage"
    /\ nodes = pre.nodes

\* the node pointer the next child of p gets; StrayNode when there is no parent
NextNode(S, p) == IF p = NoNode THEN StrayNode ELSE Append(p, Len(S.nodes[p].m_children))

\* constructing a node for obj under p in the tree S fails and registers
\* nothing when the kind is not Root and p is null, and otherwise adds the one
\* entry (obj, node) to the alias index and touches no other entry
ConstructionRegisters(S, obj, p, kind) ==
    LET n == NextNode(S, p)
        made == NewNode(Work(S), n, obj, p, KeyA, kind)
    IN IF kind # "PT_Root" /\ p = NoNode
       THEN /\ made.err = "invalid_argument"
            /\ made.alias = S.alias
            /\ made.nodes = S.nodes
       ELSE /\ Ok(made)
            /\ GetAliases(made, obj) = Append(GetAliases(Work(S), obj), n)
            /\ DOMAIN made.alias = DOMAIN S.alias \cup {obj}
            /\ \A o \in DOMAIN S.alias \ {obj} : made.alias[o] = S.alias[o]
            /\ DOMAIN made.nodes = DOMAIN S.nodes \cup {n}
            /\ made.nodes[n].m_pObject = obj
            /\ made.nodes[n].m_pParent = p
            /\ made.nodes[n].m_parentType = kind
            /\ \A m \in DOMAIN S.nodes : made.nodes[m] = S.nodes[m]

\* C24: constructing a node with a kind other than Root and a null parent fails
\* with invalid_argument and leaves the alias index as it was; every
\* construction that succeeds registers exactly one (object, node) entry.
C24_ConstructionRegisters ==
    /\ op.name = "construct" =>
          /\ err = "invalid_argument"
          /\ m_nodeAliases = pre.alias
          /\ nodes = pre.nodes
          /\ objs = pre.objs
    /\ Running =>
          \A p \in LiveNodes(Entry) \cup {NoNode}, kind \in ParentageTypes :
              \A obj \in DOMAIN m_nodeAliases \cup {<<CatalogNum, KeyC>>} :
                  ConstructionRegisters(Entry, obj, p, kind)

\* C24: a Contained node was constructed with a null parent in a tree of
\* several nodes, one object of which has two aliases
C24_Witness ==
    /\ op.name = "construct"
    /\ err = "invalid_argument"
    /\ \E obj \in DOMAIN m_nodeAliases : Len(m_nodeAliases[obj]) = 2
    /\ m_nodeAliases = pre.alias

\* C25: from every state the adapter reaches, destroying the tree destroys the
\* root and with it every live node and leaves the alias index empty, so the
\* assertion of the destructor holds and no destructor throws.
C25_TeardownEmpties ==
    /\ op.name = "destroy" =>
          /\ err = "exit"
          /\ DOMAIN nodes = {}
          /\ DOMAIN m_nodeAliases = {}
          /\ objs = pre.objs
    /\ Running =>
          /\ Ok(DestroyTree(Work(Entry)))
          /\ LiveNodes(DestroyTree(Work(Entry))) = {}
          /\ ~DestroyTree(Work(Entry)).used

\* C25: a tree of five or more nodes, two of them aliases of one object, was destroyed
C25_Witness ==
    /\ op.name = "destroy"
    /\ err = "exit"
    /\ Cardinality(DOMAIN pre.nodes) >= 5
    /\ \E o \in DOMAIN pre.alias : Len(pre.alias[o]) >= 2
    /\ DOMAIN nodes = {}

\* node m of the tree S lies below node n: its chain of parents reaches n
RECURSIVE Under(_, _, _)
Under(S, m, n) ==
    IF m \notin DOMAIN S.nodes \/ S.nodes[m].m_pParent = NoNode THEN FALSE
    ELSE S.nodes[m].m_pParent = n \/ Under(S, S.nodes[m].m_pParent, n)

Below(S, n) == {m \in DOMAIN S.nodes : Under(S, m, n)}

\* seq without its entries in gone, the order of the others kept
RECURSIVE Without(_, _)
Without(seq, gone) ==
    IF seq = <<>> THEN <<>>
    ELSE IF Head(seq) \in gone THEN Without(Tail(seq), gone)
    ELSE <<Head(seq)>> \o Without(Tail(seq), gone)

\* the tree T is the tree S after InvalidateChildren() on n: the nodes below n
\* are gone from the nodes and from the alias index, n is unpopulated with an
\* empty child list, and everything else is as in S
Invalidated(S, T, n) ==
    /\ DOMAIN T.nodes = DOMAIN S.nodes \ Below(S, n)
    /\ T.nodes[n] = [S.nodes[n] EXCEPT !.m_children = <<>>, !.m_bChildrenLoaded = FALSE]
    /\ \A m \in DOMAIN T.nodes \ {n} : T.nodes[m] = S.nodes[m]
    /\ \A m \in DOMAIN T.nodes : T.nodes[m].live
    /\ DOMAIN T.alias = {o \in DOMAIN S.alias : Without(S.alias[o], Below(S, n)) # <<>>}
    /\ \A o \in DOMAIN T.alias : T.alias[o] = Without(S.alias[o], Below(S, n))
    /\ T.objs = S.objs
    /\ DOMAIN T.freed = DOMAIN S.freed \ Below(S, n)
    /\ \A m \in DOMAIN T.freed : T.freed[m] = S.freed[m]

\* C26: InvalidateChildren() on node N destroys and deregisters exactly the
\* nodes below N, leaves N unpopulated with an empty child list, and leaves N,
\* its ancestors and every node outside its subtree live and registered with
\* their child lists, flags and objects as they were.
C26_InvalidateChildrenExact ==
    err = "none" =>
        /\ Running =>
              \A n \in LiveNodes(Entry) :
                  /\ Ok(InvalidateChildren(Work(Entry), n))
                  /\ Invalidated(Entry, Snap(Collect(InvalidateChildren(Work(Entry), n))), n)
        /\ op.name = "InvalidateChildren" => Invalidated(pre, Entry, op.node)

\* C26: InvalidateChildren(index) removed a child and a grandchild of a node
\* and left a populated node outside that subtree
C26_Witness ==
    /\ err = "none"
    /\ op.name = "InvalidateChildren"
    /\ \E m \in Below(pre, op.node) : pre.nodes[m].m_pParent # op.node
    /\ \E m \in DOMAIN nodes : ~Under(pre, op.node, m) /\ m # op.node /\ nodes[m].m_children # <<>>
    /\ Invalidated(pre, Entry, op.node)

\* the last call was data() for the icon of a reference node that was neither
\* populated nor pretending to be empty
IconOfUnloadedReference ==
    /\ op.valid
    /\ op.column = 0
    /\ op.role = "DecorationRole"
    /\ ReferenceNode(Work(pre), op.node)
    /\ ~pre.nodes[op.node].m_bChildrenLoaded
    /\ ~pre.nodes[op.node].m_bPretendEmpty

\* C27 as stated: data(index, role) leaves every object, the set of live nodes,
\* every child list and populated flag, and the alias index as they were.
C27_DataChangesNothing ==
    (err = "none" /\ op.name = "data") =>
        /\ objs = pre.objs
        /\ nodes = pre.nodes
        /\ m_nodeAliases = pre.alias

\* C27 amended: data(index, role) never changes an object, and leaves the nodes
\* and the alias index as they were except when it is asked for the
\* DecorationRole of column 0 of a reference node that is not yet populated:
\* then that node is populated as CountChildren() populates it (its one
\* Referenced child is created and registered) and nothing else changes.
C27_DataOnlyPopulatesReference ==
    (err = "none" /\ op.name = "data") =>
        /\ objs = pre.objs
        /\ freed = pre.freed
        /\ m_bDocChanged = pre.changed
        /\ log = <<>>
        /\ ~IconOfUnloadedReference =>
              /\ nodes = pre.nodes
              /\ m_nodeAliases = pre.alias
        /\ IconOfUnloadedReference =>
              /\ nodes[op.node] = [pre.nodes[op.node] EXCEPT
                                      !.m_bChildrenLoaded = TRUE,
                                      !.m_children = nodes[op.node].m_children]
              /\ ReferencedChild(Work(Entry), Listed(Work(Entry), nodes[op.node].m_children),
                                 ObjectValue(Work(pre), op.node))
              /\ DOMAIN nodes = DOMAIN pre.nodes \cup Range(nodes[op.node].m_children)
              /\ \A m \in DOMAIN pre.nodes \ {op.node} : nodes[m] = pre.nodes[m]
              /\ \A m \in Range(nodes[op.node].m_children) :
                    /\ m \notin DOMAIN pre.nodes
                    /\ nodes[m].m_pParent = op.node
                    /\ nodes[m].m_children = <<>>
              /\ AliasIndexExact(Entry)
              /\ \A o \in DOMAIN pre.alias : Without(m_nodeAliases[o], Range(nodes[op.node].m_children))
                                                = pre.alias[o]

\* C27: data() for the icon of an unpopulated reference created its child node
C27_Witness ==
    /\ err = "none"
    /\ op.name = "data"
    /\ IconOfUnloadedReference
    /\ Len(nodes[op.node].m_children) = 1
    /\ Cardinality(DOMAIN nodes) = Cardinality(DOMAIN pre.nodes) + 1

\* every node of the alias snapshot is live when the loop of
\* PrepareForSubtreeChange comes to it
RECURSIVE PrepareVisitsLive(_, _, _, _)
PrepareVisitsLive(s, aliases, obj, childCount) ==
    IF aliases = <<>> \/ ~Ok(s) THEN TRUE
    ELSE /\ s.nodes[Head(aliases)].live
         /\ PrepareVisitsLive(PrepareAlias(s, Head(aliases), obj, childCount),
                              Tail(aliases), obj, childCount)

\* the same for the loop of SubtreeChanged
RECURSIVE ChangedVisitsLive(_, _, _)
ChangedVisitsLive(s, aliases, obj) ==
    IF aliases = <<>> \/ ~Ok(s) THEN TRUE
    ELSE /\ s.nodes[Head(aliases)].live
         /\ ChangedVisitsLive(ChangedAlias(s, Head(aliases), obj), Tail(aliases), obj)

\* an edit prepared and announced for node p of the tree S and applied to the
\* node target finds every node it visits live; prepared and mutated are the
\* states after PrepareForSubtreeChange and after the mutation
EditVisitsLive(S, p, target, prepared, mutated) ==
    /\ CountChildren(Work(S), p) # 0 =>
          PrepareVisitsLive(CountChildrenS(Work(S), p),
                            GetAliases(Work(S), S.nodes[p].m_pObject),
                            S.nodes[p].m_pObject, CountChildren(Work(S), p))
    /\ Ok(prepared) => prepared.nodes[target].live
    /\ Ok(mutated) =>
          /\ mutated.nodes[p].live
          /\ ChangedVisitsLive(mutated, GetAliases(mutated, GetObject(mutated, p)),
                               GetObject(mutated, p))

\* C28: during PrepareForSubtreeChange and SubtreeChanged, called from setData
\* and insertKey, every node taken from the alias snapshot is live when it is
\* visited, and the edited node is live when SetRawData or InsertKey is applied
\* to it, also when one alias lies in the subtree of another.
C28_AliasesLiveWhenVisited ==
    (err = "none" /\ Running) =>
        \A p \in LiveNodes(Entry) :
            LET prepared == PrepareForSubtreeChange(Work(Entry), p)
            IN /\ EditVisitsLive(Entry, p, p, prepared, SetRawDataS(prepared, p, "/N"))
               /\ CanInsertKey(Work(Entry), InsertTarget(p, TRUE), KeyC) =>
                     EditVisitsLive(Entry, p, InsertTarget(p, TRUE), prepared,
                                    InsertKeyS(prepared, InsertTarget(p, TRUE), KeyC))

\* C29: the assertions of PrepareForSubtreeChange hold in every state the
\* adapter reaches: whatever node it is called for, every alias of that node
\* wraps the same object and counts the same children as the node.
C29_PrepareAssertionsHold ==
    (err = "none" /\ Running) =>
        \A p \in LiveNodes(Entry) :
            /\ PrepareForSubtreeChange(Work(Entry), p).err # "assert"
            /\ CountChildren(Work(Entry), p) # 0 =>
                  \A a \in Range(GetAliases(Work(Entry), nodes[p].m_pObject)) :
                      /\ nodes[a].m_pObject = nodes[p].m_pObject
                      /\ CountChildren(CountChildrenS(Work(Entry), p), a)
                            = CountChildren(Work(Entry), p)

\* the last call was an insertKey that returned true, called with the index
\* of a node that wraps a dictionary
InsertKeyOnDictionary ==
    /\ err = "none"
    /\ op.name = "insertKey"
    /\ op.valid
    /\ ret
    /\ ~IsWild(Work(pre), op.node)
    /\ IsDictionary(ObjectValue(Work(pre), op.node))

\* the children node n of the tree S reports
Reported(S, n) ==
    Range(CountChildrenS(SetPretendEmpty(Work(S), n, FALSE), n).nodes[n].m_children)

\* C30: after insertKey(keyName, parent) returned true for a dictionary node,
\* the node counts one child more than before the call and has a Contained
\* child with parent key keyName that wraps null; the removal of the old rows
\* is announced before the dictionary is changed and the insertion of the rows
\* [0, new count - 1] of the node after it.
C30_InsertKeyAddsChild ==
    InsertKeyOnDictionary =>
        /\ CountChildren(Work(Entry), op.node) = CountChildren(Work(pre), op.node) + 1
        /\ \E c \in Reported(Entry, op.node) :
              /\ CountChildrenS(Work(Entry), op.node).nodes[c].m_parentKey = op.key
              /\ CountChildrenS(Work(Entry), op.node).nodes[c].m_parentType = "PT_Contained"
              /\ ObjectValue(CountChildrenS(Work(Entry), op.node), c) = Null
        /\ \E i \in 1..Len(log) :
              /\ log[i].e = "AddKey"
              /\ \A j \in 1..Len(log) :
                    log[j].e \in {"beginRemoveRows", "endRemoveRows"} => j < i
              /\ CountChildren(Work(pre), op.node) > 0 =>
                    \E j \in 1..(i - 1) :
                        /\ log[j].e = "beginRemoveRows"
                        /\ log[j].n = op.node
                        /\ log[j].a = 0
                        /\ log[j].b = CountChildren(Work(pre), op.node) - 1
              /\ \E j \in (i + 1)..Len(log) :
                    /\ log[j].e = "beginInsertRows"
                    /\ log[j].n = op.node
                    /\ log[j].a = 0
                    /\ log[j].b = CountChildren(Work(pre), op.node)

\* C31: pretend-empty is transient.  Whenever no failure is pending, at the
\* return of every call and between two calls, no live node has its
\* pretend-empty flag set: every node the call's PrepareForSubtreeChange
\* flagged is destroyed or has its flag cleared by the matching SubtreeChanged,
\* whether the edit parsed or not.
C31_PretendEmptyTransient ==
    err = "none" =>
        /\ \A n \in LiveNodes(Entry) : ~nodes[n].m_bPretendEmpty
        /\ \A n \in LiveNodes(mid[1]) :
              mid[1].nodes[n].m_bPretendEmpty =>
                  \/ n \notin LiveNodes(Entry)
                  \/ ~nodes[n].m_bPretendEmpty

\* C31: a setData whose bytes did not parse and an insertKey each returned
\* after PrepareForSubtreeChange had flagged a node that is still alive
C31_Witness ==
    /\ err = "none"
    /\ \/ op.name = "setData" /\ SetRawDataThrows(op.bytes)
       \/ op.name = "insertKey"
    /\ \E n \in LiveNodes(mid[1]) \cap LiveNodes(Entry) : mid[1].nodes[n].m_bPretendEmpty

\* the nodes that are live in t and were not in s
Created(s, t) == LiveNodes(t) \ LiveNodes(s)

\* one CountChildren() call took s to t by populating n one level deep, and a
\* second call changes nothing
OneLevel(s, t, n) ==
    /\ Ok(t)
    /\ t.nodes[n].m_bChildrenLoaded
    /\ Created(s, t) = Range(t.nodes[n].m_children)
    /\ \A c \in Created(s, t) :
          /\ t.nodes[c].m_pParent = n
          /\ ~t.nodes[c].m_bChildrenLoaded
          /\ t.nodes[c].m_children = <<>>
    /\ \A m \in LiveNodes(s) \ {n} : m \in LiveNodes(t) /\ t.nodes[m] = s.nodes[m]
    /\ CountChildrenS(t, n) = t
    /\ \A i \in AskedChildren : GetChild(t, n, i) = ChildAt(t.nodes[n].m_children, i)

\* C32: one CountChildren()/GetChild() call on an unpopulated node creates only
\* that node's direct children, each unpopulated and without children, and
\* returns, also in the document whose catalog refers to itself; a second call
\* on the populated node creates no node.  Checked for every unpopulated live
\* node of the tree between two calls, and for every rowCount() call made.
C32_PopulatesOneLevel ==
    /\ Running =>
          \A n \in LiveNodes(Entry) :
              (~nodes[n].m_bChildrenLoaded /\ ~nodes[n].m_bPretendEmpty) =>
                  OneLevel(Work(Entry), CountChildrenS(Work(Entry), n), n)
    /\ (err = "none" /\ op.name = "rowCount" /\ ~pre.nodes[op.node].m_bChildrenLoaded) =>
          /\ OneLevel(Work(pre), Work(Entry), op.node)
          /\ Snap(Work(Entry)) = Snap(CountChildrenS(Work(pre), op.node))

\* C32: rowCount() populated a node that wraps the catalog below the catalog's
\* reference to itself, and the new children are unpopulated
C32_Witness ==
    /\ err = "none"
    /\ op.name = "rowCount"
    /\ op.node # RootNode
    /\ ~pre.nodes[op.node].m_bChildrenLoaded
    /\ nodes[op.node].m_pObject = <<CatalogNum>>
    /\ nodes[op.node].m_parentType = "PT_Referenced"
    /\ Len(nodes[op.node].m_children) = 2

\* ---- trunk variant
\* the nodes above n, by the parent pointers
RECURSIVE TrunkAbove(_)
TrunkAbove(n) ==
    IF nodes[n].m_pParent = NoNode THEN {}
    ELSE {nodes[n].m_pParent} \cup TrunkAbove(nodes[n].m_pParent)

\* node n wraps a reference object
TrunkReferenceNode(n) ==
    /\ nodes[n].m_pObject # <<>>
    /\ IsReference(TrunkValue(nodes[n].m_pObject))

\* the reference nodes above n with the reference value of n
TrunkSameAbove(n) ==
    {a \in TrunkAbove(n) :
        /\ TrunkReferenceNode(a)
        /\ TrunkValue(nodes[a].m_pObject).v = TrunkValue(nodes[n].m_pObject).v}

\* node n has no child and its constructor adds none
TrunkLeaf(n) ==
    /\ nodes[n].m_children = <<>>
    /\ \A i \in 1..Len(frames) : frames[i].node = n => frames[i].todo = <<>>

\* the tree's constructor returned
TrunkDone == err = "none" /\ nodes # <<>> /\ frames = <<>>

\* the reference nodes are cut where a reference repeats
TrunkCut ==
    /\ Len(frames) < MaxFrames
    /\ \A n \in DOMAIN nodes :
          TrunkReferenceNode(n) =>
              /\ TrunkSameAbove(n) # {} => TrunkLeaf(n)
              /\ Cardinality(TrunkSameAbove(n)) <= 1

\* C33 as stated: no path from the root holds two reference nodes with the
\* same reference value.
C33_NoReferenceTwiceOnPath ==
    err = "none" =>
        \A n \in DOMAIN nodes : TrunkReferenceNode(n) => TrunkSameAbove(n) = {}

\* C33, amended: in the trunk variant the construction of the tree never
\* recurses without end, also when references form cycles: the nesting of the
\* constructors stays bounded and every run comes to its end, the constructor's
\* return or the death of the program.  A reference node with the reference
\* value of a reference node above it gets no children, so a path from the
\* root holds at most two reference nodes with the same reference value, the
\* lower one a leaf.
C33_TrunkCutsCycles == []TrunkCut /\ <>(TrunkDone \/ err # "none")

\* C33: the tree of a document whose catalog refers to itself is complete, and
\* the second reference node for the catalog on a path is a leaf
C33_Witness ==
    /\ TrunkDone
    /\ \E n \in DOMAIN nodes :
          /\ TrunkReferenceNode(n)
          /\ TrunkValue(nodes[n].m_pObject).v = CatalogNum
          /\ Cardinality(TrunkSameAbove(n)) = 1
          /\ nodes[n].m_children = <<>>
          /\ \E a \in TrunkSameAbove(n) : Len(nodes[a].m_children) = 1

\* C34: in the trunk variant a reference that resolves to no object is no
\* error: no node wrapping a missing (null) object is ever created, the
\* reference node stays a leaf, and the program does not die on it, so the
\* construction of the tree completes.
C34_DanglingReferenceIsLeaf ==
    /\ err # "null_dereference"
    /\ \A n \in DOMAIN nodes :
          /\ nodes[n].m_pObject # <<>>
          /\ (/\ TrunkReferenceNode(n)
              /\ Resolve(Entry, TrunkValue(nodes[n].m_pObject).v) = <<>>) => TrunkLeaf(n)

\* the alias index of t is that of s less one entry, the one of node n under
\* its object; the entries of the other nodes are kept in their order
ErasedOne(s, t, n) ==
    LET obj == GetObject(s, n)
    IN /\ Ok(t)
       /\ obj \in DOMAIN s.alias
       /\ Cardinality({i \in 1..Len(s.alias[obj]) : s.alias[obj][i] = n}) = 1
       /\ GetAliases(t, obj) = Without(s.alias[obj], {n})
       /\ \A o \in (DOMAIN s.alias) \ {obj} : o \in DOMAIN t.alias /\ t.alias[o] = s.alias[o]
       /\ DOMAIN t.alias \subseteq DOMAIN s.alias

\* every live node of the tree S can be destroyed: NodeDeleted finds its pair
\* and erases that entry alone, and the destructors of the whole tree, which
\* delete every node, do not throw
Erasable(S) ==
    LET s == Work(S)
    IN /\ \A n \in LiveNodes(S) : ErasedOne(s, NodeDeleted(s, n), n)
       /\ DOMAIN S.nodes # {} => DeleteNode(s, RootNode).err # "logic_error:alias"

\* C35: in every state the adapter's operations reach, a node that is destroyed
\* has its (object, node) pair in the alias index, NodeDeleted removes exactly
\* that one entry and no entry of another node, and the fatal error 'could not
\* find object,node pair' is never raised.  Checked for every live node of the
\* trees a call left after PrepareForSubtreeChange and after its mutation, of
\* every tree held between two calls, and for every call made.
C35_NodeDeletedFindsPair ==
    /\ err # "logic_error:alias"
    /\ err = "none" =>
          /\ mid[1] # Snap(Work(pre)) => Erasable(mid[1])
          /\ mid[2] # mid[1] => Erasable(mid[2])
          /\ Running => Erasable(Entry)
          /\ \A n \in LiveNodes(pre) \ LiveNodes(Entry) :
                \A obj \in DOMAIN m_nodeAliases : n \notin Range(m_nodeAliases[obj])

\* C35: a call destroyed one of the two nodes that wrap one object and left
\* the entry of the other
C35_Witness ==
    /\ err = "none"
    /\ \E obj \in DOMAIN pre.alias \cap DOMAIN m_nodeAliases :
          /\ Len(pre.alias[obj]) = 2
          /\ Len(m_nodeAliases[obj]) = 1
          /\ pre.alias[obj][2] \notin LiveNodes(Entry)
          /\ m_nodeAliases[obj][1] = pre.alias[obj][1]

\* the last call was a setData with an invalid index, a column other than the
\* value column, or a value that is null, invalid, not convertible or empty
SetDataRejected ==
    /\ op.name = "setData"
    /\ \/ ~op.valid
       \/ op.column # ValueColumn
       \/ op.bytes \in {"", NoValue}

\* C36: setData returns false and has no effect at all when the index is
\* invalid, the column is not 2, or the value is null, invalid, not convertible
\* to bytes or empty: no notification is emitted, no child list invalidated, no
\* pretend-empty flag set, no node created or destroyed, and the underlying
\* objects and the document-changed flag are as before.
C36_SetDataRejectsQuietly ==
    SetDataRejected =>
        /\ err = "none"
        /\ ~ret
        /\ log = <<>>
        /\ Entry = pre
        /\ mid = <<Snap(Work(pre)), Snap(Work(pre))>>

\* C36: setData was rejected for a value and for an index, on a tree with
\* populated nodes and a document that had been changed
C36_Witness ==
    /\ SetDataRejected
    /\ ~ret
    /\ m_bDocChanged
    /\ Cardinality(DOMAIN nodes) >= 3
    /\ \/ op.valid /\ op.column = ValueColumn /\ op.node # RootNode
       \/ ~op.valid

\* C37: the document-changed flag is false after construction, no call resets
\* it from true to false, and it is true after every call that modified an
\* object of the document: after every setData, insertKey or insertElement
\* call that returned true.
C37_ChangedFlagTracksEdits ==
    /\ (op = NoOp /\ edits = 0) => ~m_bDocChanged
    /\ (pre # NoEntry /\ pre.changed) => m_bDocChanged
    /\ (err = "none" /\ op.name \in {"setData", "insertKey", "insertElement"} /\ ret) =>
          m_bDocChanged
    /\ (err = "none" /\ pre # NoEntry /\ objs # pre.objs) => m_bDocChanged

\* ---- parentage kinds
\* the parentage kinds of the live nodes of the tree S agree with the objects
\* their parents wrap
KindsConsistent(S) ==
    /\ {n \in LiveNodes(S) : S.nodes[n].m_parentType = "PT_Root"} = {RootNode}
    /\ {n \in LiveNodes(S) : S.nodes[n].m_pParent = NoNode} = {RootNode}
    /\ \A n \in LiveNodes(S) \ {RootNode} :
          /\ S.nodes[n].m_pParent \in LiveNodes(S)
          /\ S.nodes[n].m_parentType = "PT_Referenced" =>
                /\ IsReference(ObjectValue(Work(S), S.nodes[n].m_pParent))
                /\ S.nodes[S.nodes[n].m_pParent].m_children = <<n>>
          /\ S.nodes[n].m_parentType = "PT_Contained" =>
                \/ IsDictionary(ObjectValue(Work(S), S.nodes[n].m_pParent))
                \/ IsArray(ObjectValue(Work(S), S.nodes[n].m_pParent))

\* C38: in every reachable state the parentage kinds are consistent with the
\* wrapped objects: exactly one live node has kind Root and it is the only node
\* with a null parent; every live node of kind Referenced has a parent whose
\* object is currently a reference and is that parent's only child; every live
\* node of kind Contained has a parent whose object is currently a dictionary
\* or an array.
C38_KindsConsistent ==
    err = "none" =>
        /\ KindsConsistent(Entry)
        /\ \A k \in 1..2 : mid[k] # NoSnap => KindsConsistent(mid[k])

====
